---- MODULE Spec2Model ----
(***************************************************************************)
(* Model of the Paradex order-book service (class ParadexService).         *)
(*                                                                         *)
(* The repository holds the service in several revisions:                  *)
(*   src/unnamed/part_001   multi-market service with the throttled        *)
(*                          outbound queue (Spec, SpecBook, SpecMetrics,   *)
(*                          SpecFeed, SpecConnection, SpecQueue,           *)
(*                          SpecStatus, SpecThrow, SpecReentrant)          *)
(*   src/unnamed/part_000   single-market (BTC) service that resets its    *)
(*                          book on every subscription (SpecBTC,           *)
(*                          SpecReplay)                                    *)
(* JavaScript numbers are modelled as exact rationals extended with NaN    *)
(* and the two infinities; binary rounding is not modelled.  Strings are   *)
(* sequences of one-character strings.  Fractions are kept in lowest terms *)
(* and reduced before they are multiplied.                                 *)
(***************************************************************************)
EXTENDS Integers, Sequences, FiniteSets, TLC

(***************************************************************************)
(* JavaScript numbers                                                      *)
(***************************************************************************)
Abs(x) == IF x < 0 THEN -x ELSE x

RECURSIVE GCD(_, _)
GCD(a, b) == IF b = 0 THEN a ELSE GCD(b, a % b)

NaN == [k |-> "nan", n |-> 0, d |-> 1]

Inf(s) == [k |-> "inf", n |-> s, d |-> 1]

\* the finite number n/d (d # 0) in lowest terms with a positive denominator
Fin(n, d) ==
    LET g == GCD(Abs(n), Abs(d))
        s == IF d < 0 THEN -1 ELSE 1
    IN  [k |-> "fin", n |-> (s * n) \div g, d |-> Abs(d) \div g]

Num(n) == Fin(n, 1)

Sign(x) == IF x.n > 0 THEN 1 ELSE IF x.n < 0 THEN -1 ELSE 0

\* x === 0
IsZero(x) == x.k = "fin" /\ x.n = 0

\* a + b
NumAdd(a, b) ==
    IF a.k = "nan" \/ b.k = "nan" THEN NaN
    ELSE IF a.k = "inf" /\ b.k = "inf" THEN (IF a.n = b.n THEN a ELSE NaN)
    ELSE IF a.k = "inf" THEN a
    ELSE IF b.k = "inf" THEN b
    ELSE LET g == GCD(a.d, b.d)
         IN  Fin(a.n * (b.d \div g) + b.n * (a.d \div g), (a.d \div g) * b.d)

\* -a
NumNeg(a) == IF a.k = "nan" THEN NaN ELSE [a EXCEPT !.n = -a.n]

\* a - b
NumSub(a, b) == NumAdd(a, NumNeg(b))

\* a * b
NumMul(a, b) ==
    IF a.k = "nan" \/ b.k = "nan" THEN NaN
    ELSE IF a.k = "inf" \/ b.k = "inf"
         THEN (IF Sign(a) * Sign(b) = 0 THEN NaN ELSE Inf(Sign(a) * Sign(b)))
    ELSE LET g1 == GCD(Abs(a.n), b.d)
             g2 == GCD(Abs(b.n), a.d)
         IN  Fin((a.n \div g1) * (b.n \div g2), (a.d \div g2) * (b.d \div g1))

\* a / b  (a zero divisor is +0: the keys and sums of the service never
\* produce -0 as a divisor, Map.set normalises -0 to +0)
NumDiv(a, b) ==
    IF a.k = "nan" \/ b.k = "nan" THEN NaN
    ELSE IF a.k = "inf" /\ b.k = "inf" THEN NaN
    ELSE IF a.k = "inf" THEN Inf(IF Sign(b) < 0 THEN -a.n ELSE a.n)
    ELSE IF b.k = "inf" THEN Num(0)
    ELSE IF b.n = 0 THEN (IF a.n = 0 THEN NaN ELSE Inf(Sign(a)))
    ELSE LET g1 == GCD(Abs(a.n), Abs(b.n))
             g2 == GCD(a.d, b.d)
         IN  Fin((a.n \div g1) * (b.d \div g2), (a.d \div g2) * (b.n \div g1))

\* a < b   (false as soon as one operand is NaN)
NumLt(a, b) ==
    /\ a.k # "nan"
    /\ b.k # "nan"
    /\ IF a.k = "inf" THEN a.n < 0 /\ ~(b.k = "inf" /\ b.n < 0)
       ELSE IF b.k = "inf" THEN b.n > 0
       ELSE LET g == GCD(a.d, b.d)
            IN  a.n * (b.d \div g) < b.n * (a.d \div g)

\* a <= b
NumLeq(a, b) == a.k # "nan" /\ b.k # "nan" /\ ~NumLt(b, a)

\* a >= b
NumGeq(a, b) == NumLeq(b, a)

(***************************************************************************)
(* parseFloat on strings given as sequences of characters.  The exponent   *)
(* part and the literal "Infinity" are outside the alphabet of the feed    *)
(* strings used here.                                                      *)
(***************************************************************************)
Digits == {"0", "1", "2", "3", "4", "5", "6", "7", "8", "9"}

DigitVal(c) ==
    CASE c = "0" -> 0 [] c = "1" -> 1 [] c = "2" -> 2 [] c = "3" -> 3
      [] c = "4" -> 4 [] c = "5" -> 5 [] c = "6" -> 6 [] c = "7" -> 7
      [] c = "8" -> 8 [] c = "9" -> 9

WhiteSpace == {" "}

\* number of leading characters of s, from position i on, that are in set cs
RECURSIVE Run(_, _, _)
Run(s, i, cs) ==
    IF i <= Len(s) /\ s[i] \in cs THEN 1 + Run(s, i + 1, cs) ELSE 0

\* value of the n digits of s that start at position i, read after acc
RECURSIVE DigitsValue(_, _, _, _)
DigitsValue(s, i, n, acc) ==
    IF n = 0 THEN acc
    ELSE DigitsValue(s, i + 1, n - 1, 10 * acc + DigitVal(s[i]))

RECURSIVE Pow10(_)
Pow10(n) == IF n = 0 THEN 1 ELSE 10 * Pow10(n - 1)

\* parseFloat(str): skip leading white space, then read the longest prefix
\* that is a decimal literal (sign, digits, optional fraction); NaN if none
parseFloat(s) ==
    LET i0      == Run(s, 1, WhiteSpace) + 1
        hasSign == i0 <= Len(s) /\ s[i0] \in {"+", "-"}
        neg     == hasSign /\ s[i0] = "-"
        i1      == IF hasSign THEN i0 + 1 ELSE i0
        ni      == Run(s, i1, Digits)
        hasDot  == i1 + ni <= Len(s) /\ s[i1 + ni] = "."
        nf      == IF hasDot THEN Run(s, i1 + ni + 1, Digits) ELSE 0
        m       == DigitsValue(s, i1, ni, 0) * Pow10(nf)
                     + DigitsValue(s, i1 + ni + 1, nf, 0)
    IN  IF ni = 0 /\ nf = 0 THEN NaN
        ELSE Fin(IF neg THEN -m ELSE m, Pow10(nf))

(***************************************************************************)
(* JavaScript Map<number, number>: entries in insertion order, keys        *)
(* compared with SameValueZero (NaN is equal to NaN).                      *)
(***************************************************************************)
EmptyMap == << >>

MapKeys(m) == {m[i].key : i \in 1..Len(m)}

MapHas(m, k) == k \in MapKeys(m)

MapIndex(m, k) == CHOOSE i \in 1..Len(m) : m[i].key = k

MapGet(m, k) == m[MapIndex(m, k)].value

\* a set that adds an entry whether or not the key is present
MapAppend(m, k, v) == Append(m, [key |-> k, value |-> v])

\* a set that gives the value to every entry of the map as well
MapSetEvery(m, k, v) ==
    IF MapHas(m, k)
    THEN [i \in 1..Len(m) |-> [m[i] EXCEPT !.value = v]]
    ELSE Append([i \in 1..Len(m) |-> [m[i] EXCEPT !.value = v]],
                [key |-> k, value |-> v])

\* map.set(k, v): overwrite in place when the key is present, else append
MapSet(m, k, v) ==
    IF MapHas(m, k)
    THEN [m EXCEPT ![MapIndex(m, k)].value = v]
    ELSE Append(m, [key |-> k, value |-> v])

\* map.delete(k)
MapDelete(m, k) ==
    LET Keep(e) == e.key # k IN SelectSeq(m, Keep)

\* Array.from(map.values())
MapValues(m) == [i \in 1..Len(m) |-> m[i].value]

(***************************************************************************)
(* processOrderBookUpdate.updateLevels                                     *)
(***************************************************************************)
\* a callback that adds the size to the size the price already has
updateLevelAccumulate(map, level) ==
    LET price == parseFloat(level[1])
        size  == parseFloat(level[2])
    IN  IF IsZero(size) THEN MapDelete(map, price)
        ELSE IF MapHas(map, price)
             THEN MapSet(map, price, NumAdd(MapGet(map, price), size))
             ELSE MapSet(map, price, size)

\* the body of the forEach callback for one raw level [priceStr, sizeStr]
updateLevel(map, level) ==
    LET price == parseFloat(level[1])
        size  == parseFloat(level[2])
    IN  IF IsZero(size) THEN MapDelete(map, price)
        ELSE MapSet(map, price, size)

\* a loop that applies the raw levels from last to first
RECURSIVE updateLevelsBackwards(_, _)
updateLevelsBackwards(map, levels) ==
    IF levels = << >> THEN map
    ELSE updateLevel(updateLevelsBackwards(map, Tail(levels)), Head(levels))

\* an update that takes the message for the whole side: the levels are
\* applied from first to last to a new Map
RECURSIVE updateLevelsFresh(_, _)
updateLevelsFresh(map, levels) ==
    IF levels = << >> THEN EmptyMap
    ELSE updateLevel(updateLevelsFresh(map, SubSeq(levels, 1, Len(levels) - 1)),
                     levels[Len(levels)])

\* levels.forEach(...): the raw levels are applied from first to last
RECURSIVE updateLevels(_, _)
updateLevels(map, levels) ==
    IF levels = << >> THEN map
    ELSE updateLevels(updateLevel(map, Head(levels)), Tail(levels))

(***************************************************************************)
(* Array.from(map.entries()).map(...).sort(comparator)                     *)
(***************************************************************************)
\* Array.from(book.side.entries()).map(([price, size]) => ({price, size}))
Levels(map) == [i \in 1..Len(map) |-> [price |-> map[i].key, size |-> map[i].value]]

\* (a, b) => b.price - a.price  for bids,  a.price - b.price  for asks
Comparator(desc, a, b) ==
    IF desc THEN NumSub(b.price, a.price) ELSE NumSub(a.price, b.price)

\* SortCompare: a NaN result of the comparator counts as +0
ComesBefore(desc, a, b) ==
    LET c == Comparator(desc, a, b) IN c.k # "nan" /\ NumLt(c, Num(0))

\* insert level x into the sorted array arr (stable: after its equals)
RECURSIVE Insert(_, _, _)
Insert(desc, arr, x) ==
    IF arr = << >> THEN <<x>>
    ELSE IF ComesBefore(desc, x, Head(arr)) THEN <<x>> \o arr
    ELSE <<Head(arr)>> \o Insert(desc, Tail(arr), x)

RECURSIVE InsertionSort(_, _, _)
InsertionSort(desc, arr, acc) ==
    IF arr = << >> THEN acc
    ELSE InsertionSort(desc, Tail(arr), Insert(desc, acc, Head(arr)))

ArrayPermutations(arr) ==
    LET n == Len(arr)
    IN  {[i \in 1..n |-> arr[p[i]]] :
            p \in {q \in [1..n -> 1..n] : \A i, j \in 1..n : q[i] = q[j] => i = j}}

\* SortCompare of two levels: -1, 0 or 1, a NaN result counting as 0
Compare(desc, a, b) ==
    LET c == Comparator(desc, a, b)
    IN  IF c.k = "nan" THEN 0 ELSE Sign(c)

\* the comparator is a consistent comparison function for the array when
\* "compares as equal" is transitive on its levels; it is not when a level
\* with a NaN price compares as equal to two levels of different prices, and
\* then the order Array.prototype.sort returns is implementation-defined
ConsistentComparator(arr) ==
    \A i, j, k \in 1..Len(arr) :
        (Compare(TRUE, arr[i], arr[j]) = 0 /\ Compare(TRUE, arr[j], arr[k]) = 0)
            => Compare(TRUE, arr[i], arr[k]) = 0

\* the arrays sort() may return
SortOutcomes(desc, arr) ==
    IF ConsistentComparator(arr) THEN {InsertionSort(desc, arr, << >>)}
    ELSE ArrayPermutations(arr)

(***************************************************************************)
(* calculateMetrics                                                        *)
(***************************************************************************)
TARGET_SPREAD_THRESHOLD == Fin(1, 100000)

\* for (const level of bids) { if (level.price >= bidCutoff) sum += size else break }
RECURSIVE BidLiquidity(_, _, _)
BidLiquidity(bids, bidCutoff, acc) ==
    IF bids = << >> THEN acc
    ELSE IF NumGeq(Head(bids).price, bidCutoff)
         THEN BidLiquidity(Tail(bids), bidCutoff, NumAdd(acc, Head(bids).size))
         ELSE acc

\* for (const level of asks) { if (level.price <= askCutoff) sum += size else break }
RECURSIVE AskLiquidity(_, _, _)
AskLiquidity(asks, askCutoff, acc) ==
    IF asks = << >> THEN acc
    ELSE IF NumLeq(Head(asks).price, askCutoff)
         THEN AskLiquidity(Tail(asks), askCutoff, NumAdd(acc, Head(asks).size))
         ELSE acc

calculateMetrics(symbol, bids, asks) ==
    LET bestBid      == bids[1].price
        bestAsk      == asks[1].price
        midPrice     == NumDiv(NumAdd(bestBid, bestAsk), Num(2))
        spread       == NumSub(bestAsk, bestBid)
        spreadPct    == NumDiv(spread, bestBid)
        bidCutoff    == NumMul(bestBid, NumSub(Num(1), TARGET_SPREAD_THRESHOLD))
        askCutoff    == NumMul(bestAsk, NumAdd(Num(1), TARGET_SPREAD_THRESHOLD))
        bidLiquidity == BidLiquidity(bids, bidCutoff, Num(0))
        askLiquidity == AskLiquidity(asks, askCutoff, Num(0))
    IN  [symbol    |-> symbol,
         price     |-> midPrice,
         bestBid   |-> bestBid,
         bestAsk   |-> bestAsk,
         spread    |-> spread,
         spreadPct |-> spreadPct,
         liquidityInTightRange |->
             [bidSide  |-> bidLiquidity,
              askSide  |-> askLiquidity,
              totalUsd |-> NumMul(NumAdd(bidLiquidity, askLiquidity), midPrice)],
         volume24h |-> Num(0)]

(***************************************************************************)
(* The service state (class ParadexService, multi-market revision)         *)
(***************************************************************************)
VARIABLES
    ws,                 \* this.ws: 0 for null, else the index of a socket
    sockets,            \* readyState of every WebSocket created so far
    subscribers,        \* this.subscribers, in registration order
    localOrderBooks,    \* this.localOrderBooks: symbol -> [bids, asks]
    marketTickers,      \* this.marketTickers: Map symbol -> ticker
    symbols,            \* this.symbols
    reconnectTimer,     \* this.reconnectTimer: 0 for null, else a timer handle
    connectionStatus,   \* this.connectionStatus
    messageQueue,       \* this.messageQueue
    isProcessingQueue,  \* this.isProcessingQueue
    messageIdCounter,   \* this.messageIdCounter
    pendingTimers,      \* handles of the reconnect timeouts not yet fired
    sendTimers,         \* number of pending setTimeout(sendNext) callbacks
    fetchPending,       \* the fetch of fetchMarkets has not settled yet
    unsubscribers,      \* the closures subscribe returned, per handler
    calls,              \* subscriber calls made by the last step, in order
    sent,               \* ws.send calls made by the last step, in order
    last,               \* the operation performed by the last step
    delivered,          \* number of feed messages delivered so far
    localOrderBook,     \* single-market revision: this.localOrderBook
    currentTicker,      \* single-market revision: this.currentTicker
    history,            \* single-market revision: the deltas applied to the
                        \* book since its last reset, and the book and its
                        \* deltas at that reset
    statusSubscribers,  \* this.statusSubscribers, in registration order
    statusCalls,        \* status subscriber calls made by the last step
    statusSeen,         \* per handler, the status of its latest call
    throwers,           \* the handlers whose body throws when it is called
    unsubscribing       \* per handler, the handlers whose unsubscribe function
                        \* its body calls when it is called

vars == <<ws, sockets, subscribers, localOrderBooks, marketTickers, symbols,
          reconnectTimer, connectionStatus, messageQueue, isProcessingQueue,
          messageIdCounter, pendingTimers, sendTimers, fetchPending,
          unsubscribers, calls, sent, last, delivered, localOrderBook,
          currentTicker, history, statusSubscribers, statusCalls, statusSeen,
          throwers, unsubscribing>>

\* the first two of the twelve default symbols
DEFAULT_SYMBOLS == <<"BTC-USD-PERP", "ETH-USD-PERP">>

\* m.symbol.endsWith('-PERP'), on the market symbols the model uses
EndsWithPERP(symbol) ==
    symbol \in {"BTC-USD-PERP", "ETH-USD-PERP", "SOL-USD-PERP"}

\* .slice(0, 40)
MarketLimit == 40

EmptyBook == [bids |-> EmptyMap, asks |-> EmptyMap]

NoTicker == [symbol |-> ""]

\* no delta applied yet, and no reset before
NoHistory ==
    [applied |-> << >>, previous |-> [applied |-> << >>, book |-> EmptyBook]]

NoLast ==
    [op |-> "init", socket |-> 0, symbol |-> "", bids |-> << >>, asks |-> << >>,
     handler |-> "", stored |-> FALSE, again |-> FALSE,
     sortedBids |-> << >>, sortedAsks |-> << >>]

(***************************************************************************)
(* Bounds of the model and the inputs of the environment                   *)
(***************************************************************************)
MaxSockets == 2

MaxSubscribers == 2

MaxLevels == 2

MaxDeltas == 2

Handlers == {"h1", "h2"}

\* no closure has been returned yet: per handler, the number of closures not
\* called so far and whether one has been called
NoUnsubscribers == [h \in Handlers |-> [fresh |-> 0, called |-> FALSE]]

\* no handler calls an unsubscribe function
NoUnsubscribing == [h \in Handlers |-> {}]

\* no status handler has been called yet
NoStatusSeen == [h \in Handlers |-> "none"]

\* what the market list request may answer: results arrays of market symbols
FetchResults ==
    { << >>,
      <<"BTC-USD">>,
      <<"ETH-USD-PERP", "BTC-USD", "SOL-USD-PERP">> }

\* every market the feed may name
Markets == {"BTC-USD-PERP", "ETH-USD-PERP", "SOL-USD-PERP"}

(***************************************************************************)
(* Outbound queue: queueMessage / processQueue / sendNext, on the record   *)
(* st of the fields subscribeToMarkets changes                             *)
(***************************************************************************)
QueueState ==
    [books |-> localOrderBooks, ctr |-> messageIdCounter, queue |-> messageQueue,
     proc |-> isProcessingQueue, timers |-> sendTimers, sent |-> << >>]

\* this.ws && this.ws.readyState === WebSocket.OPEN, for socket reference w
IsOpen(w, socks) == w # 0 /\ socks[w] = "OPEN"

\* a sendNext that takes the newest message of the queue
sendNextNewest(st, w, socks) ==
    IF st.queue = << >> \/ ~IsOpen(w, socks)
    THEN [st EXCEPT !.proc = FALSE]
    ELSE [st EXCEPT !.queue  = SubSeq(@, 1, Len(@) - 1),
                    !.sent   = Append(@, [socket |-> w,
                                          msg |-> st.queue[Len(st.queue)]]),
                    !.timers = @ + 1]

\* sendNext(): stop the loop, or send the head and schedule the next run
sendNext(st, w, socks) ==
    IF st.queue = << >> \/ ~IsOpen(w, socks)
    THEN [st EXCEPT !.proc = FALSE]
    ELSE [st EXCEPT !.queue  = Tail(@),
                    !.sent   = Append(@, [socket |-> w, msg |-> Head(st.queue)]),
                    !.timers = @ + 1]

\* a processQueue that starts a send loop although one is running
processQueueAgain(st, w, socks) ==
    IF st.queue = << >> THEN st
    ELSE sendNext([st EXCEPT !.proc = TRUE], w, socks)

\* processQueue()
processQueue(st, w, socks) ==
    IF st.proc \/ st.queue = << >> THEN st
    ELSE sendNext([st EXCEPT !.proc = TRUE], w, socks)

queueMessage(st, message, w, socks) ==
    processQueue([st EXCEPT !.queue = Append(@, message)], w, socks)

\* the body of this.symbols.forEach in subscribeToMarkets
subscribeSymbol(st, symbol, w, socks) ==
    LET st1 == [st EXCEPT
                  !.books = IF symbol \in DOMAIN @ THEN @
                            ELSE @ @@ (symbol :> EmptyBook),
                  !.ctr   = @ + 1]
    IN  queueMessage(st1, [market |-> symbol, id |-> st1.ctr], w, socks)

RECURSIVE subscribeEach(_, _, _, _)
subscribeEach(st, syms, w, socks) ==
    IF syms = << >> THEN st
    ELSE subscribeEach(subscribeSymbol(st, Head(syms), w, socks), Tail(syms), w, socks)

\* a subscribeToMarkets without the check of the connection status
subscribeToMarketsAnyStatus(st, status, syms, w, socks) ==
    subscribeEach(st, syms, w, socks)

subscribeToMarkets(st, status, syms, w, socks) ==
    IF status # "CONNECTED" THEN st ELSE subscribeEach(st, syms, w, socks)

\* writes the fields of st back to the service
StoreQueueState(st) ==
    /\ localOrderBooks'   = st.books
    /\ messageIdCounter'  = st.ctr
    /\ messageQueue'      = st.queue
    /\ isProcessingQueue' = st.proc
    /\ sendTimers'        = st.timers
    /\ sent'              = st.sent

(***************************************************************************)
(* Event loop: the error and the close event of a failed socket are fired  *)
(* by one task, so no other task runs between the two handlers             *)
(***************************************************************************)
NoDispatchPending == \A i \in 1..Len(sockets) : sockets[i] # "ERRORED"

Unused ==
    UNCHANGED <<localOrderBook, currentTicker, history, statusSubscribers,
                statusCalls, statusSeen, throwers, unsubscribing>>

\* the same for the steps that call updateStatus
UnusedByStatus ==
    UNCHANGED <<localOrderBook, currentTicker, history, statusSubscribers,
                throwers, unsubscribing>>

\* the calls of this.statusSubscribers.forEach(cb => cb(status))
notifyStatus(status) ==
    /\ statusCalls' = [i \in 1..Len(statusSubscribers) |->
                          [handler |-> statusSubscribers[i], status |-> status]]
    /\ statusSeen' = [h \in DOMAIN statusSeen |->
                         IF \E i \in 1..Len(statusSubscribers) : statusSubscribers[i] = h
                         THEN status ELSE statusSeen[h]]

\* updateStatus(status)
updateStatus(status) ==
    IF connectionStatus # status
    THEN connectionStatus' = status /\ notifyStatus(status)
    ELSE UNCHANGED <<connectionStatus, statusCalls, statusSeen>>

(***************************************************************************)
(* calls, sent and last describe the step just taken.  They are read by no *)
(* operation of the service; Observe forgets them before the next          *)
(* operation runs.                                                         *)
(***************************************************************************)
Quiet == last = NoLast /\ calls = << >> /\ sent = << >> /\ statusCalls = << >>

Observe ==
    /\ ~Quiet
    /\ last' = NoLast
    /\ calls' = << >>
    /\ sent' = << >>
    /\ UNCHANGED <<ws, sockets, subscribers, localOrderBooks, marketTickers,
                   symbols, reconnectTimer, connectionStatus, messageQueue,
                   isProcessingQueue, messageIdCounter, pendingTimers, sendTimers,
                   fetchPending, unsubscribers, delivered>>
    /\ statusCalls' = << >>
    /\ UNCHANGED statusSeen
    /\ UnusedByStatus

(***************************************************************************)
(* connect / scheduleReconnect                                             *)
(***************************************************************************)
\* scheduleReconnect(): clear the timer the field refers to, arm a new one
scheduleReconnect ==
    /\ reconnectTimer' = reconnectTimer + 1
    /\ pendingTimers'  = (pendingTimers \ {reconnectTimer}) \cup {reconnectTimer + 1}

\* ws.close() on socket w
CloseSocket(socks, w) ==
    IF w # 0 /\ socks[w] \in {"CONNECTING", "OPEN"}
    THEN [socks EXCEPT ![w] = "CLOSING"]
    ELSE socks

\* a connect() without the check of the connection status
connectAnyStatus(pending) ==
    /\ messageQueue' = << >>
    /\ isProcessingQueue' = FALSE
    /\ updateStatus("CONNECTING")
    /\ \E thrown \in BOOLEAN :
          IF thrown
          THEN /\ sockets' = CloseSocket(sockets, ws)
               /\ ws' = 0
               /\ reconnectTimer' = reconnectTimer + 1
               /\ pendingTimers' =
                      (pending \ {reconnectTimer}) \cup {reconnectTimer + 1}
          ELSE /\ Len(sockets) < MaxSockets
               /\ sockets' = Append(CloseSocket(sockets, ws), "CONNECTING")
               /\ ws' = Len(sockets) + 1
               /\ pendingTimers' = pending
               /\ UNCHANGED reconnectTimer

\* connect(), called while the timers in pending are armed; new WebSocket
\* either returns a socket or throws, and the catch block calls
\* scheduleReconnect()
connect(pending) ==
    IF connectionStatus \in {"CONNECTED", "CONNECTING"}
    THEN /\ pendingTimers' = pending
         /\ UNCHANGED <<ws, sockets, messageQueue, isProcessingQueue,
                        connectionStatus, reconnectTimer, statusCalls, statusSeen>>
    ELSE /\ messageQueue' = << >>
         /\ isProcessingQueue' = FALSE
         /\ updateStatus("CONNECTING")
         /\ \E thrown \in BOOLEAN :
               IF thrown
               THEN /\ sockets' = CloseSocket(sockets, ws)
                    /\ ws' = 0
                    /\ reconnectTimer' = reconnectTimer + 1
                    /\ pendingTimers' =
                           (pending \ {reconnectTimer}) \cup {reconnectTimer + 1}
               ELSE /\ Len(sockets) < MaxSockets
                    /\ sockets' = Append(CloseSocket(sockets, ws), "CONNECTING")
                    /\ ws' = Len(sockets) + 1
                    /\ pendingTimers' = pending
                    /\ UNCHANGED reconnectTimer

\* the reconnect timeout with handle h fires: connect().  A send timeout
\* that is pending was set before this timeout (nothing is sent while a
\* reconnect timeout is pending) and with the shorter delay, SEND_DELAY_MS
\* against 5000 ms, so its callback runs first
ReconnectTimerFires(h) ==
    /\ Quiet
    /\ h \in pendingTimers
    /\ NoDispatchPending
    /\ sendTimers = 0
    /\ connect(pendingTimers \ {h})
    /\ calls' = << >>
    /\ sent' = << >>
    /\ last' = [NoLast EXCEPT !.op = "reconnectTimer"]
    /\ UNCHANGED <<subscribers, localOrderBooks, marketTickers, symbols,
                   messageIdCounter, sendTimers, fetchPending,
                   unsubscribers, delivered>>
    /\ UnusedByStatus

\* ws.onopen of socket id
OnOpen(id) ==
    /\ Quiet
    /\ id \in 1..Len(sockets)
    /\ sockets[id] = "CONNECTING"
    /\ NoDispatchPending
    /\ sockets' = [sockets EXCEPT ![id] = "OPEN"]
    /\ updateStatus("CONNECTED")
    /\ StoreQueueState(subscribeToMarkets(QueueState, "CONNECTED", symbols, ws, sockets'))
    /\ calls' = << >>
    /\ last' = [NoLast EXCEPT !.op = "open", !.socket = id]
    /\ UNCHANGED <<ws, subscribers, marketTickers, symbols, reconnectTimer,
                   pendingTimers, fetchPending, unsubscribers, delivered>>
    /\ UnusedByStatus

\* the connection of socket id fails: ws.onerror, the close event follows
OnError(id) ==
    /\ Quiet
    /\ id \in 1..Len(sockets)
    /\ sockets[id] \in {"CONNECTING", "OPEN"}
    /\ NoDispatchPending
    /\ sockets' = [sockets EXCEPT ![id] = "ERRORED"]
    /\ updateStatus("ERROR")
    /\ calls' = << >>
    /\ sent' = << >>
    /\ last' = [NoLast EXCEPT !.op = "error", !.socket = id]
    /\ UNCHANGED <<ws, subscribers, localOrderBooks, marketTickers, symbols,
                   reconnectTimer, messageQueue, isProcessingQueue,
                   messageIdCounter, pendingTimers, sendTimers, fetchPending,
                   unsubscribers, delivered>>
    /\ UnusedByStatus

\* ws.onclose of socket id: closed by the peer, after ws.close(), or after an error
OnClose(id) ==
    /\ Quiet
    /\ id \in 1..Len(sockets)
    /\ sockets[id] \in {"OPEN", "CLOSING", "ERRORED"}
    /\ sockets[id] = "ERRORED" \/ NoDispatchPending
    /\ sockets' = [sockets EXCEPT ![id] = "CLOSED"]
    /\ updateStatus("DISCONNECTED")
    /\ ws' = 0
    /\ scheduleReconnect
    /\ calls' = << >>
    /\ sent' = << >>
    /\ last' = [NoLast EXCEPT !.op = "close", !.socket = id]
    /\ UNCHANGED <<subscribers, localOrderBooks, marketTickers, symbols,
                   messageQueue, isProcessingQueue, messageIdCounter, sendTimers,
                   fetchPending, unsubscribers, delivered>>
    /\ UnusedByStatus

\* a setTimeout(sendNext, SEND_DELAY_MS) callback runs
SendTimerFires ==
    /\ Quiet
    /\ sendTimers > 0
    /\ NoDispatchPending
    /\ StoreQueueState(sendNext([QueueState EXCEPT !.timers = @ - 1], ws, sockets))
    /\ calls' = << >>
    /\ last' = [NoLast EXCEPT !.op = "sendTimer"]
    /\ UNCHANGED <<ws, sockets, subscribers, marketTickers, symbols, reconnectTimer,
                   connectionStatus, pendingTimers, fetchPending, unsubscribers,
                   delivered>>
    /\ Unused

(***************************************************************************)
(* fetchMarkets                                                            *)
(***************************************************************************)
RECURSIVE FilterPERP(_)
FilterPERP(results) ==
    IF results = << >> THEN << >>
    ELSE IF EndsWithPERP(Head(results))
         THEN <<Head(results)>> \o FilterPERP(Tail(results))
         ELSE FilterPERP(Tail(results))

Slice(arr, n) == SubSeq(arr, 1, IF Len(arr) < n THEN Len(arr) ELSE n)

\* the request answers with json.results = results
FetchMarketsDone(results) ==
    /\ Quiet
    /\ fetchPending
    /\ fetchPending' = FALSE
    /\ LET newSymbols == Slice(FilterPERP(results), MarketLimit)
       IN  IF Len(newSymbols) > 0
           THEN /\ symbols' = newSymbols
                /\ StoreQueueState(subscribeToMarkets(QueueState, connectionStatus,
                                                      newSymbols, ws, sockets))
           ELSE /\ UNCHANGED <<symbols, localOrderBooks, messageIdCounter,
                               messageQueue, isProcessingQueue, sendTimers>>
                /\ sent' = << >>
    /\ calls' = << >>
    /\ last' = [NoLast EXCEPT !.op = "fetched"]
    /\ UNCHANGED <<ws, sockets, subscribers, marketTickers, reconnectTimer,
                   connectionStatus, pendingTimers, unsubscribers, delivered>>
    /\ Unused

\* the request fails, answers !response.ok, or carries no results array
FetchMarketsFailed ==
    /\ Quiet
    /\ fetchPending
    /\ fetchPending' = FALSE
    /\ calls' = << >>
    /\ sent' = << >>
    /\ last' = [NoLast EXCEPT !.op = "fetchFailed"]
    /\ UNCHANGED <<ws, sockets, subscribers, localOrderBooks, marketTickers, symbols,
                   reconnectTimer, connectionStatus, messageQueue,
                   isProcessingQueue, messageIdCounter, pendingTimers, sendTimers,
                   unsubscribers, delivered>>
    /\ Unused

(***************************************************************************)
(* handleMessage / processOrderBookUpdate / notify                         *)
(***************************************************************************)
\* msg.method === 'subscription_update' && msg.params?.channel === 'order_book'
IsOrderBookUpdate(msg) ==
    /\ "method" \in DOMAIN msg
    /\ msg.method = "subscription_update"
    /\ "params" \in DOMAIN msg
    /\ msg.params.channel = "order_book"

\* raw || [] for the field f of the message data
OrEmpty(data, f) == IF f \in DOMAIN data THEN data[f] ELSE << >>

\* a notify that calls nobody
notifyNobody(tickers, subs) == << >>

\* a notify that hands out the most recently added snapshot only
notifyLastOnly(tickers, subs) ==
    [i \in 1..Len(subs) |->
        [handler |-> subs[i], data |-> <<tickers[Len(tickers)].value>>]]

\* a notify that adds a placeholder for every default symbol
notifyWithPlaceholders(tickers, subs) ==
    [i \in 1..Len(subs) |->
        [handler |-> subs[i],
         data    |-> MapValues(tickers)
                        \o [j \in 1..Len(DEFAULT_SYMBOLS) |->
                               [symbol |-> DEFAULT_SYMBOLS[j]]]]]

\* an unsubscribe function that removes the handler from the array in place
unsubscribeInPlace(iterated, field, callback) ==
    LET Keep(s) == s # callback
    IN  [iterated |-> SelectSeq(iterated, Keep), field |-> SelectSeq(field, Keep)]

\* the function subscribe(callback) returned, called while forEach walks the
\* array `iterated`: this.subscribers = this.subscribers.filter(...) gives
\* the field a new array and leaves the array that is walked as it is
unsubscribeClosure(iterated, field, callback) ==
    LET Keep(s) == s # callback
    IN  [iterated |-> iterated, field |-> SelectSeq(field, Keep)]

\* the handlers for which subscribe has returned a function
Held(closures) ==
    {h \in DOMAIN closures : closures[h].fresh > 0 \/ closures[h].called}

\* the functions of the handlers of S are called, one after the other; st
\* holds the array forEach walks, the field this.subscribers, the functions
\* returned so far and the calls made so far
RECURSIVE callClosures(_, _)
callClosures(st, S) ==
    IF S = {} THEN st
    ELSE LET h    == CHOOSE x \in S : TRUE
             done == unsubscribeClosure(st.iterated, st.field, h)
         IN  callClosures(
                 [st EXCEPT !.iterated = done.iterated,
                            !.field    = done.field,
                            !.closures[h] =
                                IF @.fresh > 0
                                THEN [fresh |-> @.fresh - 1, called |-> TRUE]
                                ELSE @],
                 S \ {h})

\* the body of handler h runs: it calls the unsubscribe functions it uses,
\* as far as subscribe has returned them
runHandler(st, h) == callClosures(st, unsubscribing[h] \cap Held(st.closures))

\* Array.prototype.forEach(s => s(data)) from index i on: the length is read
\* once, before the first call; an index the array has no more is skipped;
\* the exception of a handler leaves forEach
RECURSIVE forEach(_, _, _, _)
forEach(st, i, len, data) ==
    IF i > len THEN st
    ELSE IF i > Len(st.iterated) THEN forEach(st, i + 1, len, data)
    ELSE LET h     == st.iterated[i]
             after == runHandler(
                          [st EXCEPT !.calls =
                               Append(@, [handler |-> h, data |-> data])], h)
         IN  IF h \in throwers THEN after ELSE forEach(after, i + 1, len, data)

\* notify() with its effects: the calls made, this.subscribers and the
\* functions returned by subscribe after the publication
Publication(tickers, subs) ==
    forEach([iterated |-> subs, field |-> subs, closures |-> unsubscribers,
             calls |-> << >>],
            1, Len(subs), MapValues(tickers))

\* the calls of this.subscribers.forEach(s => s(data))
notify(tickers, subs) == Publication(tickers, subs).calls

\* processOrderBookUpdate(symbol, rawBids, rawAsks), called for socket id
processOrderBookUpdate(id, symbol, rawBids, rawAsks) ==
    LET event == [NoLast EXCEPT !.op = "delta", !.socket = id, !.symbol = symbol,
                                !.bids = rawBids, !.asks = rawAsks]
    IN
    IF symbol \notin DOMAIN localOrderBooks
    THEN /\ UNCHANGED <<localOrderBooks, marketTickers, subscribers, unsubscribers>>
         /\ calls' = << >>
         /\ last' = event
    ELSE LET book == localOrderBooks[symbol]
             bids == updateLevels(book.bids, rawBids)
             asks == updateLevels(book.asks, rawAsks)
         IN  /\ localOrderBooks' =
                    [localOrderBooks EXCEPT ![symbol] = [bids |-> bids, asks |-> asks]]
             /\ \E sortedBids \in SortOutcomes(TRUE, Levels(bids)),
                   sortedAsks \in SortOutcomes(FALSE, Levels(asks)) :
                    IF Len(sortedBids) > 0 /\ Len(sortedAsks) > 0
                    THEN /\ marketTickers' =
                                MapSet(marketTickers, symbol,
                                       calculateMetrics(symbol, sortedBids, sortedAsks))
                         /\ calls' = notify(marketTickers', subscribers)
                         /\ subscribers' =
                                Publication(marketTickers', subscribers).field
                         /\ unsubscribers' =
                                Publication(marketTickers', subscribers).closures
                         /\ last' = [event EXCEPT !.stored = TRUE,
                                                  !.sortedBids = sortedBids,
                                                  !.sortedAsks = sortedAsks]
                    ELSE /\ UNCHANGED <<marketTickers, subscribers, unsubscribers>>
                         /\ calls' = << >>
                         /\ last' = [event EXCEPT !.sortedBids = sortedBids,
                                                  !.sortedAsks = sortedAsks]

\* ws.onmessage of socket id with the parsed message msg
OnMessage(id, msg) ==
    /\ Quiet
    /\ id \in 1..Len(sockets)
    /\ sockets[id] = "OPEN"
    /\ NoDispatchPending
    /\ IF IsOrderBookUpdate(msg)
       THEN processOrderBookUpdate(id, msg.params.data.market,
                                   OrEmpty(msg.params.data, "bids"),
                                   OrEmpty(msg.params.data, "asks"))
       ELSE /\ UNCHANGED <<localOrderBooks, marketTickers, subscribers,
                           unsubscribers>>
            /\ calls' = << >>
            /\ last' = [NoLast EXCEPT !.op = "message", !.socket = id]
    /\ sent' = << >>
    /\ UNCHANGED <<ws, sockets, symbols, reconnectTimer,
                   connectionStatus, messageQueue, isProcessingQueue,
                   messageIdCounter, pendingTimers, sendTimers, fetchPending>>
    /\ Unused

(***************************************************************************)
(* subscribe and the closure it returns                                    *)
(***************************************************************************)
\* a subscribe that registers the callback without calling it
SubscribeWithoutReplay(callback) ==
    /\ Quiet
    /\ NoDispatchPending
    /\ Len(subscribers) < MaxSubscribers
    /\ unsubscribers[callback].fresh < MaxSubscribers
    /\ subscribers' = Append(subscribers, callback)
    /\ calls' = << >>
    /\ unsubscribers' = [unsubscribers EXCEPT ![callback].fresh = @ + 1]
    /\ sent' = << >>
    /\ last' = [NoLast EXCEPT !.op = "subscribe", !.handler = callback]
    /\ UNCHANGED <<ws, sockets, localOrderBooks, marketTickers, symbols,
                   reconnectTimer, connectionStatus, messageQueue,
                   isProcessingQueue, messageIdCounter, pendingTimers, sendTimers,
                   fetchPending, delivered>>
    /\ Unused

\* subscribe(callback)
Subscribe(callback) ==
    /\ Quiet
    /\ NoDispatchPending
    /\ Len(subscribers) < MaxSubscribers
    /\ unsubscribers[callback].fresh < MaxSubscribers
    /\ LET replayed == Len(marketTickers) > 0
           call     == [handler |-> callback, data |-> MapValues(marketTickers)]
           pushed   == [iterated |-> << >>,
                        field    |-> Append(subscribers, callback),
                        closures |-> unsubscribers,
                        calls    |-> IF replayed THEN <<call>> ELSE << >>]
           after    == IF replayed THEN runHandler(pushed, callback) ELSE pushed
       IN  /\ subscribers' = after.field
           /\ calls' = after.calls
           /\ unsubscribers' =
                  IF replayed /\ callback \in throwers
                  THEN after.closures
                  ELSE [after.closures EXCEPT ![callback].fresh = @ + 1]
    /\ sent' = << >>
    /\ last' = [NoLast EXCEPT !.op = "subscribe", !.handler = callback]
    /\ UNCHANGED <<ws, sockets, localOrderBooks, marketTickers, symbols,
                   reconnectTimer, connectionStatus, messageQueue,
                   isProcessingQueue, messageIdCounter, pendingTimers, sendTimers,
                   fetchPending, delivered>>
    /\ Unused

\* the function returned by subscribe(callback) is called
Unsubscribe(callback) ==
    /\ Quiet
    /\ NoDispatchPending
    /\ \E again \in BOOLEAN :
          /\ IF again THEN unsubscribers[callback].called
                      ELSE unsubscribers[callback].fresh > 0
          /\ unsubscribers' =
                 IF again THEN unsubscribers
                 ELSE [unsubscribers EXCEPT
                          ![callback] = [fresh |-> @.fresh - 1, called |-> TRUE]]
          /\ last' = [NoLast EXCEPT !.op = "unsubscribe", !.handler = callback,
                                    !.again = again]
    /\ subscribers' = LET Keep(x) == x # callback IN SelectSeq(subscribers, Keep)
    /\ calls' = << >>
    /\ sent' = << >>
    /\ UNCHANGED <<ws, sockets, localOrderBooks, marketTickers, symbols,
                   reconnectTimer, connectionStatus, messageQueue,
                   isProcessingQueue, messageIdCounter, pendingTimers, sendTimers,
                   fetchPending, delivered>>
    /\ Unused

(***************************************************************************)
(* subscribeStatus and the closure it returns                              *)
(***************************************************************************)
\* a subscribeStatus that registers the callback without calling it
SubscribeStatusSilently(callback) ==
    /\ Quiet
    /\ NoDispatchPending
    /\ Len(statusSubscribers) < MaxSubscribers
    /\ statusSubscribers' = Append(statusSubscribers, callback)
    /\ statusCalls' = << >>
    /\ UNCHANGED statusSeen
    /\ calls' = << >>
    /\ sent' = << >>
    /\ last' = [NoLast EXCEPT !.op = "subscribeStatus", !.handler = callback]
    /\ UNCHANGED <<ws, sockets, subscribers, localOrderBooks, marketTickers,
                   symbols, reconnectTimer, connectionStatus, messageQueue,
                   isProcessingQueue, messageIdCounter, pendingTimers, sendTimers,
                   fetchPending, unsubscribers, delivered, localOrderBook,
                   currentTicker, history, throwers, unsubscribing>>

\* subscribeStatus(callback)
SubscribeStatus(callback) ==
    /\ Quiet
    /\ NoDispatchPending
    /\ Len(statusSubscribers) < MaxSubscribers
    /\ statusSubscribers' = Append(statusSubscribers, callback)
    /\ statusCalls' = <<[handler |-> callback, status |-> connectionStatus]>>
    /\ statusSeen' = [statusSeen EXCEPT ![callback] = connectionStatus]
    /\ calls' = << >>
    /\ sent' = << >>
    /\ last' = [NoLast EXCEPT !.op = "subscribeStatus", !.handler = callback]
    /\ UNCHANGED <<ws, sockets, subscribers, localOrderBooks, marketTickers,
                   symbols, reconnectTimer, connectionStatus, messageQueue,
                   isProcessingQueue, messageIdCounter, pendingTimers, sendTimers,
                   fetchPending, unsubscribers, delivered, localOrderBook,
                   currentTicker, history, throwers, unsubscribing>>

\* the function returned by subscribeStatus(callback) is called while the
\* callback is registered; any other call of it changes nothing
UnsubscribeStatus(callback) ==
    /\ Quiet
    /\ NoDispatchPending
    /\ \E i \in 1..Len(statusSubscribers) : statusSubscribers[i] = callback
    /\ statusSubscribers' =
           LET Keep(x) == x # callback IN SelectSeq(statusSubscribers, Keep)
    /\ statusCalls' = << >>
    /\ UNCHANGED statusSeen
    /\ calls' = << >>
    /\ sent' = << >>
    /\ last' = [NoLast EXCEPT !.op = "unsubscribeStatus", !.handler = callback]
    /\ UNCHANGED <<ws, sockets, subscribers, localOrderBooks, marketTickers,
                   symbols, reconnectTimer, connectionStatus, messageQueue,
                   isProcessingQueue, messageIdCounter, pendingTimers, sendTimers,
                   fetchPending, unsubscribers, delivered, localOrderBook,
                   currentTicker, history, throwers, unsubscribing>>

(***************************************************************************)
(* Feed messages                                                           *)
(***************************************************************************)
\* the strings "1", "2", ...: one character each
Str(c) == <<c>>

\* arrays of at most n raw levels taken from L
LevelLists(L, n) == UNION {[1..k -> L] : k \in 0..n}

OrderBookUpdate(data) ==
    [method |-> "subscription_update",
     params |-> [channel |-> "order_book", data |-> data]]

\* order book updates for the markets M whose levels come from L, with at
\* most n levels in the message
OrderBookUpdates(M, L, n) ==
    LET lists == LevelLists(L, n)
        pairs == {p \in lists \X lists : Len(p[1]) + Len(p[2]) <= n}
    IN  {OrderBookUpdate([market |-> m, bids |-> p[1], asks |-> p[2]]) :
            m \in M, p \in pairs}

\* order book updates for the markets M with at most one level of L on
\* each side
OneLevelUpdates(M, L) ==
    {OrderBookUpdate([market |-> m, bids |-> b, asks |-> a]) :
        m \in M, b \in LevelLists(L, 1), a \in LevelLists(L, 1)}

\* order book updates whose bids or asks array is absent
PartialUpdates(M, L, n) ==
    {OrderBookUpdate([market |-> m, bids |-> b]) : m \in M, b \in LevelLists(L, n)}
    \cup {OrderBookUpdate([market |-> m, asks |-> a]) : m \in M, a \in LevelLists(L, n)}

\* messages that are no order book update
OtherMessages ==
    { [id |-> 1, result |-> "ok"],
      [method |-> "subscription_update",
       params |-> [channel |-> "trades", data |-> [market |-> "BTC-USD-PERP"]]] }


\* the feed of the whole-service specification: one price per side, set or
\* removed
ServiceLevels == {<<Str("1"), Str("1")>>, <<Str("1"), Str("0")>>}

ServiceMessages == OrderBookUpdates(Markets, ServiceLevels, 1) \cup OtherMessages

ServiceHandlers == {"h1"}

(***************************************************************************)
(* The service after construction: connect() has created the first socket  *)
(* and fetchMarkets() awaits the market list                               *)
(***************************************************************************)
Init ==
    /\ ws = 1
    /\ sockets = <<"CONNECTING">>
    /\ subscribers = << >>
    /\ localOrderBooks = << >>
    /\ marketTickers = EmptyMap
    /\ symbols = DEFAULT_SYMBOLS
    /\ reconnectTimer = 0
    /\ connectionStatus = "CONNECTING"
    /\ messageQueue = << >>
    /\ isProcessingQueue = FALSE
    /\ messageIdCounter = 0
    /\ pendingTimers = {}
    /\ sendTimers = 0
    /\ fetchPending = TRUE
    /\ unsubscribers = NoUnsubscribers
    /\ calls = << >>
    /\ sent = << >>
    /\ last = NoLast
    /\ delivered = 0
    /\ history = NoHistory
    /\ statusSubscribers = << >>
    /\ statusCalls = << >>
    /\ statusSeen = NoStatusSeen
    /\ throwers = {}
    /\ unsubscribing = NoUnsubscribing
    /\ localOrderBook = EmptyBook
    /\ currentTicker = NoTicker

\* the feed delivers a message to the handler of the open socket id; the
\* model stops the feed after MaxDeltas messages
Deliver(id, msg) ==
    /\ delivered < MaxDeltas
    /\ OnMessage(id, msg)
    /\ delivered' = delivered + 1

\* the same delivery where the feed is not counted
Receive(id, msg) == OnMessage(id, msg) /\ UNCHANGED delivered

Next ==
    \/ \E id \in 1..MaxSockets : OnOpen(id)
    \/ \E id \in 1..MaxSockets : OnError(id)
    \/ \E id \in 1..MaxSockets : OnClose(id)
    \/ \E h \in pendingTimers : ReconnectTimerFires(h)
    \/ SendTimerFires
    \/ \E results \in FetchResults : FetchMarketsDone(results)
    \/ FetchMarketsFailed
    \/ \E id \in 1..MaxSockets, msg \in ServiceMessages : Deliver(id, msg)
    \/ \E callback \in ServiceHandlers : Subscribe(callback)
    \/ \E callback \in ServiceHandlers : Unsubscribe(callback)
    \/ \E callback \in ServiceHandlers : SubscribeStatus(callback)
    \/ \E callback \in ServiceHandlers : UnsubscribeStatus(callback)
    \/ Observe

Spec == Init /\ [][Next]_vars

(***************************************************************************)
(* The connected service: the state reached from Init once the first       *)
(* socket has opened, the two subscription requests have been sent and the *)
(* market list request has failed                                          *)
(***************************************************************************)
InitConnected ==
    /\ ws = 1
    /\ sockets = <<"OPEN">>
    /\ subscribers = << >>
    /\ localOrderBooks = [m \in {"BTC-USD-PERP", "ETH-USD-PERP"} |-> EmptyBook]
    /\ marketTickers = EmptyMap
    /\ symbols = DEFAULT_SYMBOLS
    /\ reconnectTimer = 0
    /\ connectionStatus = "CONNECTED"
    /\ messageQueue = << >>
    /\ isProcessingQueue = FALSE
    /\ messageIdCounter = 2
    /\ pendingTimers = {}
    /\ sendTimers = 0
    /\ fetchPending = FALSE
    /\ unsubscribers = NoUnsubscribers
    /\ calls = << >>
    /\ sent = << >>
    /\ last = NoLast
    /\ delivered = 0
    /\ history = NoHistory
    /\ statusSubscribers = << >>
    /\ statusCalls = << >>
    /\ statusSeen = NoStatusSeen
    /\ throwers = {}
    /\ unsubscribing = NoUnsubscribing
    /\ localOrderBook = EmptyBook
    /\ currentTicker = NoTicker

(***************************************************************************)
(* SpecBook: the connected service fed with order book updates of one      *)
(* market whose levels carry two prices and zero, positive, negative and   *)
(* unparsable sizes                                                        *)
(***************************************************************************)
BookLevels ==
    {<<Str("1"), z>> : z \in {Str("0"), Str("1"), <<"-", "1">>, Str("x")}}
    \cup {<<Str("2"), z>> : z \in {Str("0"), Str("1")}}

BookMessages ==
    OrderBookUpdates({"BTC-USD-PERP"}, BookLevels, MaxLevels)
    \cup PartialUpdates({"BTC-USD-PERP"}, BookLevels, 1)

NextBook ==
    \/ \E msg \in BookMessages : Receive(1, msg)
    \/ Observe

SpecBook == InitConnected /\ [][NextBook]_vars

(***************************************************************************)
(* Properties of the order book (SpecBook)                                 *)
(***************************************************************************)
\* the levels of one side as a set of (price, size) entries
SideLevels(map) == {map[i] : i \in 1..Len(map)}

\* the side after an entry (price p, size s): p is absent when s = 0, p has
\* size s otherwise, every other price keeps its entry
EntryEffect(side, p, s) ==
    LET others == {e \in side : e.key # p}
    IN  IF IsZero(s) THEN others ELSE others \cup {[key |-> p, value |-> s]}

RECURSIVE EntriesEffect(_, _)
EntriesEffect(side, levels) ==
    IF levels = << >> THEN side
    ELSE EntriesEffect(EntryEffect(side, parseFloat(Head(levels)[1]),
                                   parseFloat(Head(levels)[2])),
                       Tail(levels))

\* the last step applied a delta to the book of its instrument
DeltaApplied == last.op = "delta" /\ last.symbol \in DOMAIN localOrderBooks

\* C1: a delta changes each side of the book of its instrument by the effect
\* of its entries, one after the other: an entry of size zero removes its
\* price if present and changes nothing otherwise, an entry of another size
\* sets its price to exactly that size, every other price of the side keeps
\* its size; a side the delta has no entry for, and the books of the other
\* instruments, are unchanged.
C1_EntryEffect ==
    [][DeltaApplied' =>
        LET before == localOrderBooks[last'.symbol]
            after  == localOrderBooks'[last'.symbol]
        IN  /\ SideLevels(after.bids) =
                    EntriesEffect(SideLevels(before.bids), last'.bids)
            /\ SideLevels(after.asks) =
                    EntriesEffect(SideLevels(before.asks), last'.asks)
            /\ last'.bids = << >> => after.bids = before.bids
            /\ last'.asks = << >> => after.asks = before.asks
            /\ \A m \in DOMAIN localOrderBooks \ {last'.symbol} :
                    localOrderBooks'[m] = localOrderBooks[m]]_vars

\* a delta with a set and a removal on the bid side has been applied to a
\* book with asks: the set price has its size, the other is absent
C1_Witness ==
    /\ DeltaApplied
    /\ last.bids = << <<Str("1"), Str("1")>>, <<Str("2"), Str("0")>> >>
    /\ last.asks = << >>
    /\ LET book == localOrderBooks[last.symbol]
       IN  /\ SideLevels(book.bids) = {[key |-> Num(1), value |-> Num(1)]}
           /\ book.asks # EmptyMap

\* the entry of levels that decides price p: the last one with that price
IsLastFor(levels, j) ==
    \A k \in (j + 1)..Len(levels) :
        parseFloat(levels[k][1]) # parseFloat(levels[j][1])

LastWins(map, levels) ==
    \A j \in 1..Len(levels) :
        IsLastFor(levels, j) =>
            LET p == parseFloat(levels[j][1])
                s == parseFloat(levels[j][2])
            IN  IF IsZero(s) THEN ~MapHas(map, p)
                ELSE MapHas(map, p) /\ MapGet(map, p) = s

\* C2: after a delta, the state of every price the message names is the one
\* its last entry for that price gives: absent when that entry has size zero,
\* present with that entry's size otherwise, whatever the earlier entries
\* for the price were.
C2_LastWriteWins ==
    DeltaApplied =>
        /\ LastWins(localOrderBooks[last.symbol].bids, last.bids)
        /\ LastWins(localOrderBooks[last.symbol].asks, last.asks)

\* one message set the same bid price twice: the second size is stored
C2_Witness ==
    /\ DeltaApplied
    /\ last.bids = << <<Str("1"), <<"-", "1">> >>, <<Str("1"), Str("1")>> >>
    /\ MapGet(localOrderBooks[last.symbol].bids, Num(1)) = Num(1)

\* an entry whose price or size does not parse
Unparsable(level) ==
    parseFloat(level[1]).k = "nan" \/ parseFloat(level[2]).k = "nan"

ParsableLevels(levels) ==
    LET Parses(level) == ~Unparsable(level) IN SelectSeq(levels, Parses)

\* C9: a delta changes each side of the book of its instrument by the effect
\* of those of its entries whose price and size parse, one after the other;
\* an entry that does not parse adds, changes and removes no level.
C9_UnparsableDropped ==
    [][DeltaApplied' =>
        LET before == localOrderBooks[last'.symbol]
            after  == localOrderBooks'[last'.symbol]
        IN  /\ SideLevels(after.bids) =
                    EntriesEffect(SideLevels(before.bids), ParsableLevels(last'.bids))
            /\ SideLevels(after.asks) =
                    EntriesEffect(SideLevels(before.asks), ParsableLevels(last'.asks))]_vars

\* the entries of both sides of every book
StoredSides ==
    {localOrderBooks[m].bids : m \in DOMAIN localOrderBooks}
    \cup {localOrderBooks[m].asks : m \in DOMAIN localOrderBooks}

UniquePrices(map) ==
    \A i, j \in 1..Len(map) : map[i].key = map[j].key => i = j

\* C10 as stated: every stored level has a size greater than zero and every
\* price is stored at most once per side.
C10_SizesPositive ==
    \A map \in StoredSides :
        /\ \A i \in 1..Len(map) : NumLt(Num(0), map[i].value)
        /\ UniquePrices(map)

\* C10: no stored level has size zero and every price is stored at most once
\* per side; a size below zero, and the size of an entry that did not parse,
\* is stored as the feed gave it.
C10_SizesNonZero ==
    \A map \in StoredSides :
        /\ \A i \in 1..Len(map) : ~IsZero(map[i].value)
        /\ UniquePrices(map)

\* a side holds two prices, one of them with the negative size of a delta
C10_Witness ==
    /\ DeltaApplied
    /\ \E map \in StoredSides :
           /\ Len(map) = 2
           /\ \E i \in 1..Len(map) : map[i].value = Num(-1)

(***************************************************************************)
(* SpecMetrics: the connected service fed with MaxDeltas updates of one     *)
(* market whose levels carry two prices within the tight band of each      *)
(* other, a negative price and a price that does not parse                 *)
(***************************************************************************)
HighPrice == <<"1", "9", "0", "6", "2", "5">>

NearPrice == <<"1", "9", "0", "6", "2", "4">>

MetricLevels ==
    {<<HighPrice, Str("1")>>, <<HighPrice, Str("0")>>,
     <<NearPrice, Str("2")>>, <<NearPrice, Str("0")>>,
     <<<<"-", "1">>, Str("1")>>, <<<<"-", "1">>, Str("0")>>,
     <<Str("x"), Str("1")>>, <<Str("x"), Str("0")>>}

MetricMessages ==
    OneLevelUpdates({"BTC-USD-PERP"}, MetricLevels)
    \cup PartialUpdates({"BTC-USD-PERP"}, MetricLevels, 1)

NextMetrics ==
    \/ \E msg \in MetricMessages : Deliver(1, msg)
    \/ Observe

SpecMetrics == InitConnected /\ [][NextMetrics]_vars

(***************************************************************************)
(* Properties of the metrics and of the ordered view (SpecMetrics)         *)
(***************************************************************************)
\* the last step stored a snapshot for the instrument of its delta
SnapshotStored == last.op = "delta" /\ last.stored

\* p is the highest (lowest) price of a side
IsMaxPrice(map, p) ==
    MapHas(map, p) /\ \A k \in MapKeys(map) \ {p} : NumGeq(p, k)

IsMinPrice(map, p) ==
    MapHas(map, p) /\ \A k \in MapKeys(map) \ {p} : NumLeq(p, k)

\* C14: the snapshot a delta has stored is computed from the book as the
\* delta left it: bestBid is the highest bid price, bestAsk the lowest ask
\* price, price their mean, spread their difference, spreadPct the spread
\* divided by bestBid, totalUsd the sum of the two band liquidities times
\* the price.
C14_MetricsFromBook ==
    SnapshotStored =>
        LET book == localOrderBooks[last.symbol]
            t    == MapGet(marketTickers, last.symbol)
            liq  == t.liquidityInTightRange
        IN  /\ IsMaxPrice(book.bids, t.bestBid)
            /\ IsMinPrice(book.asks, t.bestAsk)
            /\ t.price = NumDiv(NumAdd(t.bestBid, t.bestAsk), Num(2))
            /\ t.spread = NumSub(t.bestAsk, t.bestBid)
            /\ t.spreadPct = NumDiv(t.spread, t.bestBid)
            /\ liq.totalUsd = NumMul(NumAdd(liq.bidSide, liq.askSide), t.price)

\* the sum of the sizes of the levels of a side
RECURSIVE SumSizes(_)
SumSizes(map) ==
    IF map = << >> THEN Num(0)
    ELSE NumAdd(SumSizes(Tail(map)), Head(map).value)

\* C15: in the snapshot a delta has stored, bidSide is the sum of the sizes
\* of all bid levels of the book whose price is at least bestBid * (1 - T),
\* askSide the sum of the sizes of all ask levels whose price is at most
\* bestAsk * (1 + T), and the best bid and the best ask are among the levels
\* counted.
C15_BandLiquidity ==
    SnapshotStored =>
        LET book      == localOrderBooks[last.symbol]
            t         == MapGet(marketTickers, last.symbol)
            bidCutoff == NumMul(t.bestBid, NumSub(Num(1), TARGET_SPREAD_THRESHOLD))
            askCutoff == NumMul(t.bestAsk, NumAdd(Num(1), TARGET_SPREAD_THRESHOLD))
            InBid(e)  == NumGeq(e.key, bidCutoff)
            InAsk(e)  == NumLeq(e.key, askCutoff)
        IN  /\ t.liquidityInTightRange.bidSide = SumSizes(SelectSeq(book.bids, InBid))
            /\ t.liquidityInTightRange.askSide = SumSizes(SelectSeq(book.asks, InAsk))
            /\ NumGeq(t.bestBid, bidCutoff)
            /\ NumLeq(t.bestAsk, askCutoff)

\* the elements of an array, each with the number of times it occurs
Occurrences(arr) ==
    {<<arr[j], Cardinality({i \in 1..Len(arr) : arr[i] = arr[j]})>> : j \in 1..Len(arr)}

\* C16: the sorted arrays a delta builds from the book of its instrument
\* hold exactly the levels of the book, the bids with prices that never
\* increase from one level to the next, the asks with prices that never
\* decrease, so that the first bid has the highest bid price and the first
\* ask the lowest ask price.
C16_OrderedView ==
    DeltaApplied =>
        LET book == localOrderBooks[last.symbol]
            bids == last.sortedBids
            asks == last.sortedAsks
        IN  /\ Occurrences(bids) = Occurrences(Levels(book.bids))
            /\ Occurrences(asks) = Occurrences(Levels(book.asks))
            /\ \A i \in 1..(Len(bids) - 1) : NumGeq(bids[i].price, bids[i + 1].price)
            /\ \A i \in 1..(Len(asks) - 1) : NumLeq(asks[i].price, asks[i + 1].price)
            /\ bids # << >> => IsMaxPrice(book.bids, bids[1].price)
            /\ asks # << >> => IsMinPrice(book.asks, asks[1].price)

\* the last step applied to the book of its instrument a delta without
\* entries, its arrays empty or absent
EmptyDelta(l) ==
    /\ l.op = "delta"
    /\ l.symbol \in DOMAIN localOrderBooks
    /\ l.bids = << >>
    /\ l.asks = << >>

\* C17: a delta without bid entries and without ask entries, its arrays
\* empty or absent, leaves the book of its instrument as it was, and the
\* snapshot stored for the instrument has the same values after it as
\* before.
C17_EmptyDeltaChangesNothing ==
    [][EmptyDelta(last') =>
          /\ localOrderBooks'[last'.symbol] = localOrderBooks[last'.symbol]
          /\ MapHas(marketTickers, last'.symbol) =>
                /\ MapHas(marketTickers', last'.symbol)
                /\ MapGet(marketTickers', last'.symbol)
                       = MapGet(marketTickers, last'.symbol)]_vars

\* an empty delta has met a book with a bid and an ask level and has stored
\* the snapshot again
C17_Witness ==
    /\ EmptyDelta(last)
    /\ last.stored
    /\ Len(localOrderBooks[last.symbol].bids) = 1
    /\ Len(localOrderBooks[last.symbol].asks) = 1

(***************************************************************************)
(* SpecFeed: the connected service with its consumers; every market of the *)
(* feed carries one price per side, set or removed                         *)
(***************************************************************************)
FeedMessages ==
    OneLevelUpdates(Markets, ServiceLevels)
    \cup PartialUpdates(Markets, ServiceLevels, 1)
    \cup OtherMessages

NextFeed ==
    \/ \E msg \in FeedMessages : Receive(1, msg)
    \/ \E callback \in Handlers : Subscribe(callback)
    \/ \E callback \in Handlers : Unsubscribe(callback)
    \/ Observe

SpecFeed == InitConnected /\ [][NextFeed]_vars

(***************************************************************************)
(* Properties of the snapshots and their publication (SpecFeed)            *)
(***************************************************************************)
Range(seq) == {seq[i] : i \in 1..Len(seq)}

\* the last step processed a delta for an instrument of the tracked set
TrackedDelta == last.op = "delta" /\ last.symbol \in Range(symbols)

BothSides(book) == book.bids # EmptyMap /\ book.asks # EmptyMap

\* the snapshots calculateMetrics may return for a book
Snapshots(symbol, book) ==
    {calculateMetrics(symbol, b, a) :
        b \in SortOutcomes(TRUE, Levels(book.bids)),
        a \in SortOutcomes(FALSE, Levels(book.asks))}

\* C3: after a delta for a tracked instrument, a snapshot has been stored
\* and the subscribers have been notified if and only if both sides of the
\* instrument's book are non-empty: then the stored snapshot is the one
\* computed from the book and every subscriber has been called once, in
\* registration order, with the stored snapshots; otherwise nothing has been
\* stored and nobody has been called.
C3_SnapshotIffBothSides ==
    TrackedDelta =>
        /\ last.symbol \in DOMAIN localOrderBooks
        /\ LET book == localOrderBooks[last.symbol]
           IN
            IF BothSides(book)
            THEN /\ last.stored
                 /\ MapHas(marketTickers, last.symbol)
                 /\ MapGet(marketTickers, last.symbol) \in Snapshots(last.symbol, book)
                 /\ calls = [i \in 1..Len(subscribers) |->
                               [handler |-> subscribers[i],
                                data    |-> MapValues(marketTickers)]]
            ELSE ~last.stored /\ calls = << >>

\* a delta has removed the only bid of an instrument that has a snapshot and
\* asks, with a subscriber registered: nobody has been called
C3_Witness ==
    /\ TrackedDelta
    /\ last.bids = << <<Str("1"), Str("0")>> >>
    /\ localOrderBooks[last.symbol].bids = EmptyMap
    /\ localOrderBooks[last.symbol].asks # EmptyMap
    /\ MapHas(marketTickers, last.symbol)
    /\ subscribers # << >>
    /\ calls = << >>

\* C4: a delta that leaves a side of its instrument's book empty leaves
\* every stored snapshot as it was and calls no subscriber, and a handler
\* that subscribes while snapshots are stored is called at once, alone, with
\* the stored snapshots, which the subscription leaves as they were.
C4_PreviousSnapshotKept ==
    [][/\ (DeltaApplied' /\ ~BothSides(localOrderBooks'[last'.symbol])) =>
              (marketTickers' = marketTickers /\ calls' = << >>)
       /\ (last'.op = "subscribe" /\ marketTickers # EmptyMap) =>
              /\ calls' = <<[handler |-> last'.handler,
                             data    |-> MapValues(marketTickers)]>>
              /\ marketTickers' = marketTickers]_vars

\* a handler has subscribed while the book of an instrument with a snapshot
\* has an empty side: it has received that snapshot
C4_Witness ==
    /\ last.op = "subscribe"
    /\ \E m \in DOMAIN localOrderBooks :
           /\ ~BothSides(localOrderBooks[m])
           /\ MapHas(marketTickers, m)
           /\ calls = <<[handler |-> last.handler,
                         data    |-> <<MapGet(marketTickers, m)>>]>>

\* C11: subscribe appends the handler to the registered handlers and, when a
\* snapshot is stored, calls that handler alone, once, with all the stored
\* snapshots; when none is stored it calls nobody.  It changes no book and
\* no snapshot, and no step ever removes a stored snapshot.
C11_SubscribeReplays ==
    [][/\ last'.op = "subscribe" =>
              /\ subscribers' = Append(subscribers, last'.handler)
              /\ calls' = IF marketTickers # EmptyMap
                          THEN <<[handler |-> last'.handler,
                                  data    |-> MapValues(marketTickers)]>>
                          ELSE << >>
              /\ UNCHANGED <<localOrderBooks, marketTickers>>
       /\ MapKeys(marketTickers) \subseteq MapKeys(marketTickers')]_vars

\* a second handler has subscribed while two snapshots are stored: it alone
\* has been called, with both
C11_Witness ==
    /\ last.op = "subscribe"
    /\ Len(subscribers) = 2
    /\ Len(marketTickers) = 2
    /\ calls = <<[handler |-> subscribers[2], data |-> MapValues(marketTickers)]>>

\* the instruments of the snapshots of a payload, in payload order
PayloadSymbols(data) == [i \in 1..Len(data) |-> data[i].symbol]

\* C12: a delta that has stored a snapshot has made one publication: one
\* call per registration, in registration order, each with the same payload,
\* which holds the stored snapshot of every instrument that has one, each
\* once, the snapshot just computed among them.
C12_OnePublication ==
    (last.op = "delta" /\ last.stored) =>
        /\ Len(calls) = Len(subscribers)
        /\ \A i \in 1..Len(calls) :
              /\ calls[i].handler = subscribers[i]
              /\ Len(calls[i].data) = Cardinality(MapKeys(marketTickers))
              /\ \A m \in MapKeys(marketTickers) :
                    \E k \in 1..Len(calls[i].data) :
                        calls[i].data[k] = MapGet(marketTickers, m)
              /\ \E k \in 1..Len(calls[i].data) :
                    /\ calls[i].data[k].symbol = last.symbol
                    /\ calls[i].data[k] \in
                           Snapshots(last.symbol, localOrderBooks[last.symbol])

\* a delta for the instrument whose snapshot was stored first has been
\* published to two different handlers while a second instrument has a
\* snapshot: each has received both snapshots
C12_Witness ==
    /\ last.op = "delta"
    /\ last.stored
    /\ subscribers = <<"h2", "h1">>
    /\ Len(marketTickers) = 2
    /\ marketTickers[1].key = last.symbol
    /\ Len(calls) = 2
    /\ calls[1].handler = "h2"
    /\ Len(calls[2].data) = 2

\* C13: a call of a function returned by subscribe leaves its handler out of
\* the registered handlers, the other registrations staying as they were, and
\* calls nobody; a call of a function that has been called before leaves the
\* registered handlers unchanged; a publication calls registered handlers
\* only.
C13_UnsubscribeOnce ==
    [][/\ last'.op = "unsubscribe" =>
              /\ last'.handler \notin Range(subscribers')
              /\ subscribers' =
                    LET Other(h) == h # last'.handler
                    IN  SelectSeq(subscribers, Other)
              /\ calls' = << >>
              /\ last'.again => subscribers' = subscribers
       /\ last'.op = "delta" =>
              \A i \in 1..Len(calls') : calls'[i].handler \in Range(subscribers)]_vars

\* C20: no snapshot is stored at first, an instrument gets its first
\* snapshot only in a step that leaves its book with a bid and an ask, and
\* every snapshot handed to a subscriber is one of the stored snapshots; so
\* no subscriber receives a snapshot of an instrument before the book of
\* the instrument has had a bid and an ask at the same time.
C20_NoSnapshotBeforeBothSides ==
    /\ marketTickers = EmptyMap
    /\ [][/\ \A m \in MapKeys(marketTickers') \ MapKeys(marketTickers) :
                /\ m \in DOMAIN localOrderBooks'
                /\ BothSides(localOrderBooks'[m])
          /\ \A i \in 1..Len(calls') :
                \A j \in 1..Len(calls'[i].data) :
                    /\ MapHas(marketTickers', calls'[i].data[j].symbol)
                    /\ calls'[i].data[j]
                           = MapGet(marketTickers', calls'[i].data[j].symbol)]_vars

\* a subscriber has received the snapshot of one instrument while the book
\* of another tracked instrument holds a bid and has never held an ask
C20_Witness ==
    /\ last.op = "delta"
    /\ calls # << >>
    /\ Len(calls[1].data) = 1
    /\ \E m \in Range(symbols) :
          /\ ~MapHas(marketTickers, m)
          /\ localOrderBooks[m].bids # EmptyMap
          /\ localOrderBooks[m].asks = EmptyMap

\* the snapshot stored for the instrument m, NoTicker when there is none
StoredSnapshot(tickers, m) ==
    IF MapHas(tickers, m) THEN MapGet(tickers, m) ELSE NoTicker

\* C21: a delta changes the book and the stored snapshot of its own
\* instrument only: the book and the stored snapshot of every other
\* instrument stay as they were, and the book of its instrument becomes the
\* effect of the delta's entries, in their order, on the book the
\* instrument had, whatever deltas of other instruments came in between.
C21_OnlyOwnInstrument ==
    [][last'.op = "delta" =>
          /\ DOMAIN localOrderBooks' = DOMAIN localOrderBooks
          /\ \A m \in (DOMAIN localOrderBooks \cup Markets) \ {last'.symbol} :
                /\ m \in DOMAIN localOrderBooks =>
                      localOrderBooks'[m] = localOrderBooks[m]
                /\ StoredSnapshot(marketTickers', m) = StoredSnapshot(marketTickers, m)
          /\ last'.symbol \in DOMAIN localOrderBooks =>
                LET old == localOrderBooks[last'.symbol]
                    new == localOrderBooks'[last'.symbol]
                IN  /\ SideLevels(new.bids)
                           = EntriesEffect(SideLevels(old.bids), last'.bids)
                    /\ SideLevels(new.asks)
                           = EntriesEffect(SideLevels(old.asks), last'.asks)]_vars

\* a delta has stored a snapshot for one instrument while another
\* instrument has a book with levels and a snapshot of its own
C21_Witness ==
    /\ last.op = "delta"
    /\ last.stored
    /\ \E m \in DOMAIN localOrderBooks \ {last.symbol} :
          /\ BothSides(localOrderBooks[m])
          /\ MapHas(marketTickers, m)
          /\ MapGet(marketTickers, m) # MapGet(marketTickers, last.symbol)

\* the number of registrations of the handler h in the list subs
Registrations(subs, h) == Cardinality({i \in 1..Len(subs) : subs[i] = h})

\* C29: the first call of an unsubscribe function removes one registration
\* of its handler, if the handler is registered, and no registration of
\* another handler; a handler that was registered twice stays registered
\* once.
C29_RegistrationsIndependent ==
    [][(last'.op = "unsubscribe" /\ ~last'.again) =>
          \A h \in Handlers :
              Registrations(subscribers', h) =
                  IF h = last'.handler /\ Registrations(subscribers, h) > 0
                  THEN Registrations(subscribers, h) - 1
                  ELSE Registrations(subscribers, h)]_vars

(***************************************************************************)
(* Properties of the tracked set and of reconnection (Spec)                *)
(***************************************************************************)
\* C5: when a socket has opened and the subscriptions have been queued,
\* both sides of every book are empty.
C5_BooksClearedOnOpen ==
    last.op = "open" =>
        \A m \in DOMAIN localOrderBooks : localOrderBooks[m] = EmptyBook

\* C7: a delta for an instrument that is not in the tracked set changes no
\* book, changes no stored snapshot and calls no subscriber.
C7_UntrackedIgnored ==
    [][(last'.op = "delta" /\ last'.symbol \notin Range(symbols)) =>
        /\ localOrderBooks' = localOrderBooks
        /\ marketTickers' = marketTickers
        /\ calls' = << >>]_vars

\* C8: when the market list has been fetched, no book and no snapshot is
\* stored for an instrument outside the tracked set.
C8_RemovedDropped ==
    last.op = "fetched" =>
        \A m \in (DOMAIN localOrderBooks) \cup MapKeys(marketTickers) :
            m \in Range(symbols)

(***************************************************************************)
(* The single-market revision of the service (src/unnamed/part_000)        *)
(***************************************************************************)
TARGET_SYMBOL == "BTC-USD-PERP"

UnusedFeedBTC ==
    UNCHANGED <<localOrderBooks, marketTickers, symbols, messageQueue,
                isProcessingQueue, messageIdCounter, sendTimers, fetchPending,
                delivered, statusSubscribers, statusCalls, statusSeen, throwers,
                unsubscribing>>

UnusedBTC == UnusedFeedBTC /\ UNCHANGED history

\* connect(), called by the reconnect timeout with handle h
ReconnectTimerFiresBTC(h) ==
    /\ Quiet
    /\ h \in pendingTimers
    /\ NoDispatchPending
    /\ Len(sockets) < MaxSockets
    /\ pendingTimers' = pendingTimers \ {h}
    /\ sockets' = Append(CloseSocket(sockets, ws), "CONNECTING")
    /\ ws' = Len(sockets) + 1
    /\ connectionStatus' = "CONNECTING"
    /\ calls' = << >>
    /\ sent' = << >>
    /\ last' = [NoLast EXCEPT !.op = "reconnectTimer"]
    /\ UNCHANGED <<subscribers, reconnectTimer, unsubscribers, localOrderBook,
                   currentTicker>>
    /\ UnusedBTC

\* a subscribeToBTC that sends its request and keeps the book
subscribeToBTCKeepBook(book, w, socks) ==
    IF ~IsOpen(w, socks)
    THEN [book |-> book, sent |-> << >>]
    ELSE [book |-> book,
          sent |-> <<[socket |-> w, msg |-> [market |-> TARGET_SYMBOL, id |-> 1]]>>]

\* a subscribeToBTC that does nothing when the book holds no level
subscribeToBTCIfLevels(book, w, socks) ==
    IF ~IsOpen(w, socks) \/ book = EmptyBook
    THEN [book |-> book, sent |-> << >>]
    ELSE [book |-> EmptyBook,
          sent |-> <<[socket |-> w, msg |-> [market |-> TARGET_SYMBOL, id |-> 1]]>>]

\* subscribeToBTC(): the book and the requests sent, for socket reference w
subscribeToBTC(book, w, socks) ==
    IF ~IsOpen(w, socks)
    THEN [book |-> book, sent |-> << >>]
    ELSE [book |-> EmptyBook,
          sent |-> <<[socket |-> w, msg |-> [market |-> TARGET_SYMBOL, id |-> 1]]>>]

\* an onopen that forgets the last ticker along with the book
OnOpenForgetTicker(id) ==
    /\ Quiet
    /\ id \in 1..Len(sockets)
    /\ sockets[id] = "CONNECTING"
    /\ NoDispatchPending
    /\ sockets' = [sockets EXCEPT ![id] = "OPEN"]
    /\ connectionStatus' = "CONNECTED"
    /\ LET r == subscribeToBTC(localOrderBook, ws, sockets')
       IN  /\ localOrderBook' = r.book
           /\ sent' = r.sent
    /\ currentTicker' = NoTicker
    /\ calls' = << >>
    /\ last' = [NoLast EXCEPT !.op = "open", !.socket = id]
    /\ UNCHANGED <<ws, subscribers, reconnectTimer, pendingTimers, unsubscribers>>
    /\ UnusedFeedBTC

\* ws.onopen of socket id
OnOpenBTC(id) ==
    /\ Quiet
    /\ id \in 1..Len(sockets)
    /\ sockets[id] = "CONNECTING"
    /\ NoDispatchPending
    /\ sockets' = [sockets EXCEPT ![id] = "OPEN"]
    /\ connectionStatus' = "CONNECTED"
    /\ LET r == subscribeToBTC(localOrderBook, ws, sockets')
       IN  /\ localOrderBook' = r.book
           /\ sent' = r.sent
    /\ calls' = << >>
    /\ last' = [NoLast EXCEPT !.op = "open", !.socket = id]
    /\ UNCHANGED <<ws, subscribers, reconnectTimer, pendingTimers, unsubscribers,
                   currentTicker>>
    /\ UnusedFeedBTC

\* ws.onerror of socket id
OnErrorBTC(id) ==
    /\ Quiet
    /\ id \in 1..Len(sockets)
    /\ sockets[id] \in {"CONNECTING", "OPEN"}
    /\ NoDispatchPending
    /\ sockets' = [sockets EXCEPT ![id] = "ERRORED"]
    /\ connectionStatus' = "ERROR"
    /\ calls' = << >>
    /\ sent' = << >>
    /\ last' = [NoLast EXCEPT !.op = "error", !.socket = id]
    /\ UNCHANGED <<ws, subscribers, reconnectTimer, pendingTimers, unsubscribers,
                   localOrderBook, currentTicker>>
    /\ UnusedBTC

\* ws.onclose of socket id
OnCloseBTC(id) ==
    /\ Quiet
    /\ id \in 1..Len(sockets)
    /\ sockets[id] \in {"OPEN", "CLOSING", "ERRORED"}
    /\ sockets[id] = "ERRORED" \/ NoDispatchPending
    /\ sockets' = [sockets EXCEPT ![id] = "CLOSED"]
    /\ connectionStatus' = "DISCONNECTED"
    /\ scheduleReconnect
    /\ calls' = << >>
    /\ sent' = << >>
    /\ last' = [NoLast EXCEPT !.op = "close", !.socket = id]
    /\ UNCHANGED <<ws, subscribers, unsubscribers, localOrderBook, currentTicker>>
    /\ UnusedBTC

\* notify(): if (this.currentTicker) subscribers.forEach(s => s([currentTicker]))
notifyBTC(ticker, subs) ==
    IF ticker = NoTicker THEN << >>
    ELSE [i \in 1..Len(subs) |-> [handler |-> subs[i], data |-> <<ticker>>]]

\* processOrderBookUpdate(rawBids, rawAsks) followed by calculateMetrics()
processOrderBookUpdateBTC(id, rawBids, rawAsks) ==
    LET event == [NoLast EXCEPT !.op = "delta", !.socket = id,
                                !.symbol = TARGET_SYMBOL,
                                !.bids = rawBids, !.asks = rawAsks]
        bids  == updateLevels(localOrderBook.bids, rawBids)
        asks  == updateLevels(localOrderBook.asks, rawAsks)
    IN  /\ localOrderBook' = [bids |-> bids, asks |-> asks]
        /\ \E sortedBids \in SortOutcomes(TRUE, Levels(bids)),
              sortedAsks \in SortOutcomes(FALSE, Levels(asks)) :
               IF Len(sortedBids) = 0 \/ Len(sortedAsks) = 0
               THEN /\ UNCHANGED currentTicker
                    /\ calls' = << >>
                    /\ last' = [event EXCEPT !.sortedBids = sortedBids,
                                             !.sortedAsks = sortedAsks]
               ELSE /\ currentTicker' =
                           calculateMetrics(TARGET_SYMBOL, sortedBids, sortedAsks)
                    /\ calls' = notifyBTC(currentTicker', subscribers)
                    /\ last' = [event EXCEPT !.stored = TRUE,
                                             !.sortedBids = sortedBids,
                                             !.sortedAsks = sortedAsks]

\* ws.onmessage of socket id with the parsed message msg
OnMessageBTC(id, msg) ==
    /\ Quiet
    /\ id \in 1..Len(sockets)
    /\ sockets[id] = "OPEN"
    /\ NoDispatchPending
    /\ IF IsOrderBookUpdate(msg) /\ msg.params.data.market = TARGET_SYMBOL
       THEN processOrderBookUpdateBTC(id, OrEmpty(msg.params.data, "bids"),
                                      OrEmpty(msg.params.data, "asks"))
       ELSE /\ UNCHANGED <<localOrderBook, currentTicker>>
            /\ calls' = << >>
            /\ last' = [NoLast EXCEPT !.op = "message", !.socket = id]
    /\ sent' = << >>
    /\ UNCHANGED <<ws, sockets, subscribers, reconnectTimer, connectionStatus,
                   pendingTimers, unsubscribers>>
    /\ UnusedFeedBTC

\* subscribe(callback)
SubscribeBTC(callback) ==
    /\ Quiet
    /\ NoDispatchPending
    /\ Len(subscribers) < MaxSubscribers
    /\ unsubscribers[callback].fresh < MaxSubscribers
    /\ subscribers' = Append(subscribers, callback)
    /\ calls' = IF currentTicker # NoTicker
                THEN <<[handler |-> callback, data |-> <<currentTicker>>]>>
                ELSE << >>
    /\ unsubscribers' = [unsubscribers EXCEPT ![callback].fresh = @ + 1]
    /\ sent' = << >>
    /\ last' = [NoLast EXCEPT !.op = "subscribe", !.handler = callback]
    /\ UNCHANGED <<ws, sockets, reconnectTimer, connectionStatus, pendingTimers,
                   localOrderBook, currentTicker>>
    /\ UnusedBTC

\* the function returned by subscribe(callback) is called
UnsubscribeBTC(callback) ==
    /\ Quiet
    /\ NoDispatchPending
    /\ \E again \in BOOLEAN :
          /\ IF again THEN unsubscribers[callback].called
                      ELSE unsubscribers[callback].fresh > 0
          /\ unsubscribers' =
                 IF again THEN unsubscribers
                 ELSE [unsubscribers EXCEPT
                          ![callback] = [fresh |-> @.fresh - 1, called |-> TRUE]]
          /\ last' = [NoLast EXCEPT !.op = "unsubscribe", !.handler = callback,
                                    !.again = again]
    /\ subscribers' = LET Keep(x) == x # callback IN SelectSeq(subscribers, Keep)
    /\ calls' = << >>
    /\ sent' = << >>
    /\ UNCHANGED <<ws, sockets, reconnectTimer, connectionStatus, pendingTimers, localOrderBook, currentTicker>>
    /\ UnusedBTC

ObserveBTC ==
    /\ ~Quiet
    /\ last' = NoLast
    /\ calls' = << >>
    /\ sent' = << >>
    /\ UNCHANGED <<ws, sockets, subscribers, reconnectTimer, connectionStatus,
                   pendingTimers, unsubscribers, localOrderBook, currentTicker>>
    /\ UnusedBTC

BTCMessages ==
    OrderBookUpdates({"BTC-USD-PERP", "ETH-USD-PERP"}, ServiceLevels, MaxLevels)
    \cup OtherMessages

\* the service after construction: connect() has created the first socket
InitBTC ==
    /\ ws = 1
    /\ sockets = <<"CONNECTING">>
    /\ subscribers = << >>
    /\ localOrderBook = EmptyBook
    /\ currentTicker = NoTicker
    /\ reconnectTimer = 0
    /\ connectionStatus = "CONNECTING"
    /\ pendingTimers = {}
    /\ unsubscribers = NoUnsubscribers
    /\ calls = << >>
    /\ sent = << >>
    /\ last = NoLast
    /\ localOrderBooks = << >>
    /\ marketTickers = EmptyMap
    /\ symbols = << >>
    /\ messageQueue = << >>
    /\ isProcessingQueue = FALSE
    /\ messageIdCounter = 0
    /\ sendTimers = 0
    /\ fetchPending = FALSE
    /\ delivered = 0
    /\ history = NoHistory
    /\ statusSubscribers = << >>
    /\ statusCalls = << >>
    /\ statusSeen = NoStatusSeen
    /\ throwers = {}
    /\ unsubscribing = NoUnsubscribing

\* the opening of a socket and the receipt of a message, the deltas
\* applied to the book not being recorded
OpenBTC(id) == OnOpenBTC(id) /\ UNCHANGED history

ReceiveBTC(id, msg) == OnMessageBTC(id, msg) /\ UNCHANGED history

NextBTC ==
    \/ \E id \in 1..MaxSockets : OpenBTC(id)
    \/ \E id \in 1..MaxSockets : OnErrorBTC(id)
    \/ \E id \in 1..MaxSockets : OnCloseBTC(id)
    \/ \E h \in pendingTimers : ReconnectTimerFiresBTC(h)
    \/ \E id \in 1..MaxSockets, msg \in BTCMessages : ReceiveBTC(id, msg)
    \/ \E callback \in ServiceHandlers : SubscribeBTC(callback)
    \/ \E callback \in ServiceHandlers : UnsubscribeBTC(callback)
    \/ ObserveBTC

SpecBTC == InitBTC /\ [][NextBTC]_vars

(***************************************************************************)
(* Properties of the single-market revision (SpecBTC)                      *)
(***************************************************************************)
\* C6: the opening of a socket, which empties the book, leaves the last
\* ticker as it was; the last ticker changes only when a delta stores a new
\* one; a handler that subscribes while a ticker is stored is called at once
\* with that ticker.
C6_ResetKeepsTicker ==
    [][/\ last'.op = "open" => currentTicker' = currentTicker
       /\ currentTicker' # currentTicker => (last'.op = "delta" /\ last'.stored)
       /\ (last'.op = "subscribe" /\ currentTicker # NoTicker) =>
              calls' = <<[handler |-> last'.handler,
                          data    |-> <<currentTicker>>]>>]_vars

\* a handler has subscribed on the second connection, whose opening emptied
\* the book: it has received the ticker stored on the first connection
C6_Witness ==
    /\ last.op = "subscribe"
    /\ Len(sockets) = 2
    /\ sockets[2] = "OPEN"
    /\ localOrderBook = EmptyBook
    /\ currentTicker # NoTicker
    /\ calls = <<[handler |-> last.handler, data |-> <<currentTicker>>]>>


\* the last step was the opening of the current socket: subscribeToBTC has
\* reset the book
ResetDone(l, w, socks) == l.op = "open" /\ IsOpen(w, socks)

\* C19: the reset of subscribeToBTC leaves the book empty, the last ticker
\* and the list of subscribers as they were, and runs on to send the
\* subscription request; on a book without levels, which is also the book
\* a reset leaves behind, it changes neither the book nor the last ticker
\* nor the list of subscribers.
C19_ResetIdempotent ==
    [][ResetDone(last', ws', sockets') =>
          /\ localOrderBook' = EmptyBook
          /\ currentTicker' = currentTicker
          /\ subscribers' = subscribers
          /\ sent' = <<[socket |-> ws',
                        msg |-> [market |-> TARGET_SYMBOL, id |-> 1]]>>
          /\ localOrderBook = EmptyBook =>
                UNCHANGED <<localOrderBook, currentTicker, subscribers>>]_vars

\* the first socket has opened while a handler was registered: the reset
\* has met the empty book of the new service
C19_Witness ==
    /\ ResetDone(last, ws, sockets)
    /\ Len(sockets) = 1
    /\ subscribers # << >>
    /\ localOrderBook = EmptyBook

(***************************************************************************)
(* SpecReplay: the single-market revision with a feed that is free on the  *)
(* first socket and, on every later socket, delivers again the deltas the  *)
(* book had received when the socket's opening reset it; history records   *)
(* the deltas applied, at most MaxDeltas of them between two resets        *)
(***************************************************************************)
ReplayLevels ==
    {<<Str("1"), Str("1")>>, <<Str("1"), Str("0")>>, <<Str("2"), Str("1")>>}

ReplayMessages == OneLevelUpdates({TARGET_SYMBOL}, ReplayLevels)

\* the messages the feed may deliver on socket id
ReplayFeed(id) ==
    IF id = 1 THEN ReplayMessages
    ELSE LET n == Len(history.applied) + 1
             H == history.previous.applied
         IN  IF n > Len(H) THEN {}
             ELSE {OrderBookUpdate([market |-> TARGET_SYMBOL,
                                    bids |-> H[n].bids, asks |-> H[n].asks])}

\* ws.onopen of socket id; when subscribeToBTC resets the book, the book
\* and its deltas are kept as the previous ones
OpenRecorded(id) ==
    /\ OnOpenBTC(id)
    /\ history' = IF IsOpen(ws, sockets')
                  THEN [applied  |-> << >>,
                        previous |-> [applied |-> history.applied,
                                      book    |-> localOrderBook]]
                  ELSE history

\* ws.onmessage of socket id; a delta applied to the book is recorded
DeliverBTC(id, msg) ==
    /\ Len(history.applied) < MaxDeltas
    /\ OnMessageBTC(id, msg)
    /\ history' = IF last'.op = "delta"
                  THEN [history EXCEPT
                           !.applied = Append(@, [bids |-> last'.bids,
                                                  asks |-> last'.asks])]
                  ELSE history

NextReplay ==
    \/ \E id \in 1..MaxSockets : OpenRecorded(id)
    \/ \E id \in 1..MaxSockets : OnCloseBTC(id)
    \/ \E h \in pendingTimers : ReconnectTimerFiresBTC(h)
    \/ \E id \in 1..MaxSockets : \E msg \in ReplayFeed(id) : DeliverBTC(id, msg)
    \/ ObserveBTC

SpecReplay == InitBTC /\ [][NextReplay]_vars

(***************************************************************************)
(* Properties of the reset of the book (SpecReplay)                        *)
(***************************************************************************)
\* the book that the deltas H build from the empty book
RECURSIVE Replay(_)
Replay(H) ==
    IF H = << >> THEN EmptyBook
    ELSE LET book  == Replay(SubSeq(H, 1, Len(H) - 1))
             delta == H[Len(H)]
         IN  [bids |-> updateLevels(book.bids, delta.bids),
              asks |-> updateLevels(book.asks, delta.asks)]

\* the same prices with the same sizes on both sides
SameBook(a, b) ==
    /\ SideLevels(a.bids) = SideLevels(b.bids)
    /\ SideLevels(a.asks) = SideLevels(b.asks)

\* the deltas applied since the last reset are those the book had received
\* when it was reset
Replayed == history.applied = history.previous.applied

\* C18: the book is the one its deltas since the last reset build from the
\* empty book; so when the book has been reset and the deltas it had
\* received from the empty book have been applied again in the same order,
\* the book has the prices and sizes it had before the reset.
C18_ReplayReproducesBook ==
    /\ SameBook(localOrderBook, Replay(history.applied))
    /\ Replayed => SameBook(localOrderBook, history.previous.book)

\* two deltas have been applied again after a reset and have built a book
\* with levels again
C18_Witness ==
    /\ Replayed
    /\ Len(history.applied) = 2
    /\ Len(sockets) = 2
    /\ sockets[2] = "OPEN"
    /\ Len(localOrderBook.bids) = 2
    /\ Len(localOrderBook.asks) = 1


(***************************************************************************)
(* SpecConnection: the service from its construction with its sockets, its *)
(* timers, its outbound queue and the market list request; no message of   *)
(* the feed and no consumer                                                *)
(***************************************************************************)
NextConnection ==
    \/ \E id \in 1..MaxSockets : OnOpen(id)
    \/ \E id \in 1..MaxSockets : OnError(id)
    \/ \E id \in 1..MaxSockets : OnClose(id)
    \/ \E h \in pendingTimers : ReconnectTimerFires(h)
    \/ SendTimerFires
    \/ \E results \in FetchResults : FetchMarketsDone(results)
    \/ FetchMarketsFailed
    \/ Observe

SpecConnection == Init /\ [][NextConnection]_vars

(***************************************************************************)
(* Properties of the market list, the connection and the outbound queue    *)
(* (SpecConnection)                                                        *)
(***************************************************************************)
\* the markets of the requests a step has sent, then of those it has left
\* in the queue
RequestedMarkets(sentNow, queue) ==
    [i \in 1..Len(sentNow) |-> sentNow[i].msg.market]
        \o [i \in 1..Len(queue) |-> queue[i].market]

IsSuffix(tail, seq) ==
    /\ Len(tail) <= Len(seq)
    /\ SubSeq(seq, Len(seq) - Len(tail) + 1, Len(seq)) = tail

\* every symbol of the list has a book, and the requests for the list are
\* the last ones queued, in the order of the list
ListSubscribed(syms, books, sentNow, queue) ==
    /\ \A i \in 1..Len(syms) : syms[i] \in DOMAIN books
    /\ IsSuffix(syms, RequestedMarkets(sentNow, queue))

\* C22: a fetch that replaces the symbol list while the status is CONNECTED
\* creates the books of the new list and queues its subscribe requests at
\* once; a fetch that ends in any other status creates no book and queues
\* and sends nothing; and the opening of the connection creates the books
\* and queues the requests of the list the service holds then.
C22_StatusGatesSubscription ==
    [][/\ (last'.op = "fetched" /\ symbols' # symbols
              /\ connectionStatus = "CONNECTED") =>
              ListSubscribed(symbols', localOrderBooks', sent', messageQueue')
       /\ (last'.op = "fetched" /\ connectionStatus # "CONNECTED") =>
              /\ UNCHANGED <<localOrderBooks, messageQueue, messageIdCounter>>
              /\ sent' = << >>
       /\ last'.op = "open" =>
              ListSubscribed(symbols', localOrderBooks', sent', messageQueue')]_vars

\* the list was fetched before the first socket opened; the opening has
\* created the books of the fetched list and queued its requests
C22_Witness ==
    /\ last.op = "open"
    /\ Len(sockets) = 1
    /\ symbols # DEFAULT_SYMBOLS
    /\ ListSubscribed(symbols, localOrderBooks, sent, messageQueue)
    /\ messageQueue # << >>


\* socket i is connecting or open, or its close event is still to come
SocketAlive(i) == sockets[i] \in {"CONNECTING", "OPEN", "CLOSING", "ERRORED"}

\* a reconnect timer is pending whose connect() will create a socket:
\* connect() returns at once while the status is CONNECTING or CONNECTED
EffectiveReconnectPending ==
    /\ pendingTimers # {}
    /\ connectionStatus \notin {"CONNECTING", "CONNECTED"}

\* C24: after a connection loss or a failed attempt a new attempt follows
\* when the reconnect timer fires: the service is never left without a
\* socket that is connecting, open or about to report its close, and
\* without a pending reconnect timer whose connect() creates a socket.
C24_ReconnectFollows ==
    (\E i \in 1..Len(sockets) : SocketAlive(i)) \/ EffectiveReconnectPending


\* the sockets that are connecting or open
LiveSockets == {i \in 1..Len(sockets) : sockets[i] \in {"CONNECTING", "OPEN"}}

\* C25: at most one socket is connecting or open and at most one reconnect
\* timer is pending; a socket that is connecting or open is the one this.ws
\* refers to, so no close event of an older socket has taken the reference
\* away from it; no socket is created while the status is CONNECTING or
\* CONNECTED; and the timer scheduleReconnect arms is the only one pending.
C25_OneSocketOneTimer ==
    /\ [](/\ Cardinality(LiveSockets) <= 1
          /\ Cardinality(pendingTimers) <= 1
          /\ \A i \in LiveSockets : ws = i)
    /\ [][/\ Len(sockets') > Len(sockets) =>
                connectionStatus \notin {"CONNECTING", "CONNECTED"}
          /\ reconnectTimer' # reconnectTimer =>
                pendingTimers' = {reconnectTimer'}]_vars

\* the reconnect timer armed by the close of the first socket has fired and
\* connect() has created the second socket
C25_Witness ==
    /\ last.op = "reconnectTimer"
    /\ sockets = <<"CLOSED", "CONNECTING">>
    /\ ws = 2
    /\ pendingTimers = {}


\* C26: at most one setTimeout(sendNext) is pending, and only while the
\* send loop is marked as running; a step sends at most one request, and a
\* step other than the expiry of the send timer sends only when no send
\* timer is pending, so between two requests sent a send timer has expired.
C26_OneSendLoop ==
    /\ [](/\ sendTimers <= 1
          /\ sendTimers = 1 => isProcessingQueue)
    /\ [][/\ Len(sent') <= 1
          /\ (sent' # << >> /\ last'.op # "sendTimer") => sendTimers = 0
          /\ sent' # << >> => sendTimers' = 1]_vars


\* on the second connection the expiry of the send timer has sent the next
\* request of the queue and has set the timer again
C26_Witness ==
    /\ last.op = "sendTimer"
    /\ Len(sent) = 1
    /\ sent[1].socket = 2
    /\ sendTimers = 1
    /\ isProcessingQueue


(***************************************************************************)
(* SpecQueue: SpecConnection where a send timeout that is pending expires  *)
(* and the step taken is observed                                          *)
(***************************************************************************)
SpecQueue == SpecConnection /\ WF_vars(SendTimerFires) /\ WF_vars(Observe)

\* the requests a step has sent, then those it has left in the queue
Requests(sentNow, queue) == [i \in 1..Len(sentNow) |-> sentNow[i].msg] \o queue

IsPrefix(head, seq) ==
    Len(head) <= Len(seq) /\ SubSeq(seq, 1, Len(head)) = head

\* C27: the requests a step sends and leaves in the queue are the requests
\* the queue held, in their order, followed by those the step has queued,
\* each with a new id, so every request leaves the queue once and in the
\* order of queueing; requests are queued only while the newest socket is
\* open and are sent over that socket only, and the step that creates a
\* socket empties the queue, so no request is sent over a later connection
\* than the one it was queued on; and while the socket stays open the
\* queue is emptied in the end.
C27_QueueInOrder ==
    /\ [][LET after == Requests(sent', messageQueue')
          IN  /\ last'.op # "reconnectTimer" => IsPrefix(messageQueue, after)
              /\ \A i \in 1..Len(after) :
                    /\ i > 1 => after[i - 1].id < after[i].id
                    /\ after[i].id <= messageIdCounter'
                    /\ i > Len(messageQueue) => after[i].id > messageIdCounter
              /\ Len(after) > Len(messageQueue) =>
                    (connectionStatus' = "CONNECTED" /\ ws' = Len(sockets')
                        /\ IsOpen(ws', sockets'))
              /\ \A i \in 1..Len(sent') :
                    sent'[i].socket = Len(sockets') /\ IsOpen(sent'[i].socket, sockets')
              /\ Len(sockets') > Len(sockets) => messageQueue' = << >>]_vars
    /\ (messageQueue # << >> /\ IsOpen(ws, sockets))
           ~> (messageQueue = << >> \/ ~IsOpen(ws, sockets))

\* while the send loop of the second connection is running, the fetched
\* list has been queued behind the requests that were waiting
C27_Witness ==
    /\ last.op = "fetched"
    /\ Len(sockets) = 2
    /\ IsOpen(ws, sockets)
    /\ Len(messageQueue) = 3
    /\ sent = << >>
    /\ sendTimers = 1


(***************************************************************************)
(* SpecStatus: the service from its construction with its sockets, its     *)
(* timers and the consumers of the connection status                       *)
(***************************************************************************)
NextStatus ==
    \/ \E id \in 1..MaxSockets : OnOpen(id)
    \/ \E id \in 1..MaxSockets : OnError(id)
    \/ \E id \in 1..MaxSockets : OnClose(id)
    \/ \E h \in pendingTimers : ReconnectTimerFires(h)
    \/ SendTimerFires
    \/ FetchMarketsFailed
    \/ \E callback \in Handlers : SubscribeStatus(callback)
    \/ \E callback \in Handlers : UnsubscribeStatus(callback)
    \/ Observe

SpecStatus == Init /\ [][NextStatus]_vars


(***************************************************************************)
(* Properties of the connection status consumers (SpecStatus)              *)
(***************************************************************************)
\* the number of times the handler h is in the list of status subscribers
StatusRegistrations(h) ==
    Cardinality({i \in 1..Len(statusSubscribers) : statusSubscribers[i] = h})

\* the calls of the handler h among the calls of a step
StatusCallsOf(h, made) == {i \in 1..Len(made) : made[i].handler = h}

\* C28: subscribeStatus calls the new handler alone, once, with the current
\* status; any other step calls the status handlers exactly when it
\* changes the status, each registered handler with the new status; so a
\* handler that is registered once is called at most once by a step and
\* never with the status of its latest call, and the status of the latest
\* call of a registered handler is the current status.
C28_StatusHandlers ==
    /\ [](\A h \in Handlers :
             StatusRegistrations(h) > 0 => statusSeen[h] = connectionStatus)
    /\ [][/\ last'.op = "subscribeStatus" =>
                /\ statusCalls' = <<[handler |-> last'.handler,
                                     status  |-> connectionStatus]>>
                /\ connectionStatus' = connectionStatus
          /\ last'.op # "subscribeStatus" =>
                statusCalls' =
                    IF connectionStatus' # connectionStatus
                    THEN [i \in 1..Len(statusSubscribers) |->
                             [handler |-> statusSubscribers[i],
                              status  |-> connectionStatus']]
                    ELSE << >>
          /\ \A h \in Handlers :
                (StatusRegistrations(h) = 1 /\ last'.op # "subscribeStatus") =>
                    /\ Cardinality(StatusCallsOf(h, statusCalls')) <= 1
                    /\ \A i \in StatusCallsOf(h, statusCalls') :
                          statusCalls'[i].status # statusSeen[h]]_vars

\* the close of the socket has called two registered handlers, the first
\* of which had seen the socket open, with DISCONNECTED
C28_Witness ==
    /\ last.op = "close"
    /\ statusSubscribers = <<"h1", "h2">>
    /\ statusCalls = <<[handler |-> "h1", status |-> "DISCONNECTED"],
                       [handler |-> "h2", status |-> "DISCONNECTED"]>>
    /\ statusSeen["h1"] = "DISCONNECTED"

(***************************************************************************)
(* SpecThrow: the connected service with consumers whose handlers may      *)
(* throw; which handlers throw is fixed when the consumers are written     *)
(***************************************************************************)
InitThrow ==
    /\ ws = 1
    /\ sockets = <<"OPEN">>
    /\ subscribers = << >>
    /\ localOrderBooks = [m \in {"BTC-USD-PERP", "ETH-USD-PERP"} |-> EmptyBook]
    /\ marketTickers = EmptyMap
    /\ symbols = DEFAULT_SYMBOLS
    /\ reconnectTimer = 0
    /\ connectionStatus = "CONNECTED"
    /\ messageQueue = << >>
    /\ isProcessingQueue = FALSE
    /\ messageIdCounter = 2
    /\ pendingTimers = {}
    /\ sendTimers = 0
    /\ fetchPending = FALSE
    /\ unsubscribers = NoUnsubscribers
    /\ calls = << >>
    /\ sent = << >>
    /\ last = NoLast
    /\ delivered = 0
    /\ history = NoHistory
    /\ statusSubscribers = << >>
    /\ statusCalls = << >>
    /\ statusSeen = NoStatusSeen
    /\ throwers \in SUBSET Handlers
    /\ unsubscribing = NoUnsubscribing
    /\ localOrderBook = EmptyBook
    /\ currentTicker = NoTicker

NextThrow ==
    \/ \E msg \in FeedMessages : Receive(1, msg)
    \/ \E callback \in Handlers : Subscribe(callback)
    \/ Observe

SpecThrow == InitThrow /\ [][NextThrow]_vars

(***************************************************************************)
(* Properties of publications with handlers that throw (SpecThrow)         *)
(***************************************************************************)
\* C30: a handler that throws during a publication affects neither ingestion
\* nor the other consumers: after a delta of a tracked market that leaves both
\* sides of the book non-empty, the snapshot computed from the book just
\* updated is stored, and every registered handler, those registered after a
\* throwing one included, has been called in the publication, in the order
\* of registration; this holds for every delta, the ones that follow a
\* publication in which a handler threw included.
C30_ThrowingHandlerIsolated ==
    TrackedDelta =>
        LET book == localOrderBooks[last.symbol]
        IN  BothSides(book) =>
                /\ last.stored
                /\ MapHas(marketTickers, last.symbol)
                /\ MapGet(marketTickers, last.symbol) \in Snapshots(last.symbol, book)
                /\ Len(calls) = Len(subscribers)
                /\ \A i \in 1..Len(subscribers) : calls[i].handler = subscribers[i]

(***************************************************************************)
(* SpecReentrant: the connected service with consumers whose handlers      *)
(* call unsubscribe functions from inside a publication; which functions a *)
(* handler calls is fixed when the consumers are written                   *)
(***************************************************************************)
ReentrantMessages ==
    OneLevelUpdates({"BTC-USD-PERP"}, ServiceLevels) \cup OtherMessages

InitReentrant ==
    /\ ws = 1
    /\ sockets = <<"OPEN">>
    /\ subscribers = << >>
    /\ localOrderBooks = [m \in {"BTC-USD-PERP", "ETH-USD-PERP"} |-> EmptyBook]
    /\ marketTickers = EmptyMap
    /\ symbols = DEFAULT_SYMBOLS
    /\ reconnectTimer = 0
    /\ connectionStatus = "CONNECTED"
    /\ messageQueue = << >>
    /\ isProcessingQueue = FALSE
    /\ messageIdCounter = 2
    /\ pendingTimers = {}
    /\ sendTimers = 0
    /\ fetchPending = FALSE
    /\ unsubscribers = NoUnsubscribers
    /\ calls = << >>
    /\ sent = << >>
    /\ last = NoLast
    /\ delivered = 0
    /\ history = NoHistory
    /\ statusSubscribers = << >>
    /\ statusCalls = << >>
    /\ statusSeen = NoStatusSeen
    /\ throwers = {}
    /\ unsubscribing \in [Handlers -> SUBSET Handlers]
    /\ localOrderBook = EmptyBook
    /\ currentTicker = NoTicker

NextReentrant ==
    \/ \E msg \in ReentrantMessages : Receive(1, msg)
    \/ \E callback \in Handlers : Subscribe(callback)
    \/ \E callback \in Handlers : Unsubscribe(callback)
    \/ Observe

SpecReentrant == InitReentrant /\ [][NextReentrant]_vars

(***************************************************************************)
(* Properties of publications with handlers that unsubscribe               *)
(* (SpecReentrant)                                                         *)
(***************************************************************************)
\* the handlers whose unsubscribe function is called by the handlers called
Unsubscribed(made, closures) ==
    UNION {unsubscribing[made[i].handler] \cap Held(closures) :
              i \in 1..Len(made)}

\* C23: handlers that unsubscribe during a publication, themselves or another
\* handler, do not disturb the iteration: each registration of the list the
\* publication started with is called exactly once, in the order of
\* registration, none is skipped and none is called twice; after the
\* publication the list is the one it started with without the handlers
\* that were unsubscribed, so that a later publication, which calls the
\* handlers of its own list only, does not call them.
C23_UnsubscribeDuringPublication ==
    [][(last'.op = "delta" /\ last'.stored) =>
          /\ Len(calls') = Len(subscribers)
          /\ \A i \in 1..Len(subscribers) : calls'[i].handler = subscribers[i]
          /\ LET Stays(s) == s \notin Unsubscribed(calls', unsubscribers)
             IN  subscribers' = SelectSeq(subscribers, Stays)]_vars

\* a publication to two handlers in which the first one has unsubscribed
\* itself, and the second one has still been called
C23_Witness ==
    /\ last.op = "delta"
    /\ last.stored
    /\ Len(calls) = 2
    /\ calls[1].handler \in unsubscribing[calls[1].handler]
    /\ calls[2].handler # calls[1].handler
    /\ subscribers = <<calls[2].handler>>

====
